---- MODULE Spec2Model ----
(***************************************************************************)
(* Model of the installment/credit engine of the point-of-sale back office *)
(* (TransactionService and DefectiveLogService): sale creation with its    *)
(* payment schedule and stock update, the post-sale DEFECTIVE / FIXED /    *)
(* RETURN / EXCHANGE actions with their atomic write, the schedule         *)
(* recomputation that runs after the commit, and the delayed bonus and     *)
(* penalty calculation.                                                    *)
(*                                                                         *)
(* Amounts that the code computes with JavaScript numbers are modelled as  *)
(* exact rationals <<n, d>> (d > 0, lowest terms): division is the exact   *)
(* quotient, so the model describes the arithmetic the code intends and    *)
(* abstracts from the rounding of IEEE doubles. Math.round is modelled by  *)
(* what it does (nearest integer, halves towards +infinity).               *)
(***************************************************************************)
EXTENDS Integers, Sequences, FiniteSets, TLC

(***************************************************************************)
(* Bounds of the model.                                                    *)
(***************************************************************************)
\* largest quantity on a sale line, in a post-sale request, and in the initial stock
MaxQty == 2
\* largest number of DefectiveLog rows (accepted post-sale actions) in a run
MaxLogs == 2
\* largest number of transactions created in a run
MaxTx == 1
\* largest number of TransactionBonusProduct rows attached and not yet restocked
MaxBonusProducts == 1

(***************************************************************************)
(* Exact rational arithmetic.                                              *)
(***************************************************************************)
Abs(x) == IF x < 0 THEN -x ELSE x

RECURSIVE GCD(_, _)
GCD(a, b) == IF b = 0 THEN a ELSE GCD(b, a % b)

\* the rational n/d in lowest terms with a positive denominator (d # 0)
Rat(n, d) ==
    LET g == GCD(Abs(n), Abs(d))
        s == IF d < 0 THEN -1 ELSE 1
    IN  <<(s * n) \div g, (s * d) \div g>>

RInt(n) == <<n, 1>>
RZero == <<0, 1>>
RAdd(a, b) == Rat(a[1] * b[2] + b[1] * a[2], a[2] * b[2])
RSub(a, b) == Rat(a[1] * b[2] - b[1] * a[2], a[2] * b[2])
RMul(a, b) == Rat(a[1] * b[1], a[2] * b[2])
\* a / b for b # 0 (every division of the code modelled here is guarded)
RDiv(a, b) == Rat(a[1] * b[2], a[2] * b[1])
RLt(a, b) == a[1] * b[2] < b[1] * a[2]
RLe(a, b) == a[1] * b[2] <= b[1] * a[2]
RMax(a, b) == IF RLt(a, b) THEN b ELSE a
RIsZero(a) == a[1] = 0
RIsPos(a) == a[1] > 0
\* Math.round: the nearest integer, halves rounded towards +infinity
RRound(a) == (2 * a[1] + a[2]) \div (2 * a[2])

RECURSIVE RSum(_)
RSum(s) == IF s = <<>> THEN RZero ELSE RAdd(Head(s), RSum(Tail(s)))

RECURSIVE ISum(_)
ISum(s) == IF s = <<>> THEN 0 ELSE Head(s) + ISum(Tail(s))

Max(a, b) == IF a < b THEN b ELSE a

(***************************************************************************)
(* The store: Product, Transaction (with its TransactionItem lines),       *)
(* PaymentSchedule, DefectiveLog, Bonus, TransactionBonusProduct and the   *)
(* branch cash balance; then the deferred work of the running requests.    *)
(***************************************************************************)
VARIABLES
    product,      \* [Products -> Product row]
    txs,          \* sequence of Transaction rows; the id is the index
    schedules,    \* PaymentSchedule table, in insertion order
    logs,         \* DefectiveLog table, in insertion order
    bonuses,      \* Bonus table
    tbp,          \* TransactionBonusProduct table
    customers,    \* Customer table; the id is the index
    cashBalance,  \* Branch.cashBalance of the one branch
    timers,       \* pending setTimeout callbacks of sale creation
    procs,        \* DefectiveLogService.create calls in flight
    last          \* outcome of the last request handled

vars == <<product, txs, schedules, logs, bonuses, tbp, customers, cashBalance, timers,
          procs, last>>


(***************************************************************************)
(* Fixed data of the run: the products and their cost price and bonus      *)
(* percentage (no operation modelled here changes them).                   *)
(***************************************************************************)
Products == {1, 2}
\* a product id that names no Product row
NoProduct == 0
ProductPrice(p) == IF p = 1 THEN 100 ELSE 40
BonusPercentage(p) == IF p = 1 THEN 20 ELSE 0

CreditTypes == {"CREDIT", "INSTALLMENT"}

\* the store as one value, so that a handler is a composition of its writes
DB == [product |-> product, txs |-> txs, schedules |-> schedules, logs |-> logs,
       bonuses |-> bonuses, tbp |-> tbp, customers |-> customers,
       cashBalance |-> cashBalance]

SetDB(d) ==
    /\ product' = d.product
    /\ txs' = d.txs
    /\ schedules' = d.schedules
    /\ logs' = d.logs
    /\ bonuses' = d.bonuses
    /\ tbp' = d.tbp
    /\ customers' = d.customers
    /\ cashBalance' = d.cashBalance

\* prisma.transaction.findUnique: the row exists iff its id was handed out and the
\* row was not deleted since (ids are not reused)
TxExists(d, id) == id \in 1..Len(d.txs) /\ ~d.txs[id].deleted

SchedulesOf(d, id) == SelectSeq(d.schedules, LAMBDA row : row.transactionId = id)

(***************************************************************************)
(* Schedule Engine.                                                        *)
(***************************************************************************)
\* the accumulation loop over the items: principal, weighted percent, term
AggregateItems(items) ==
    LET RECURSIVE Agg(_)
        Agg(k) ==
            IF k = 0
            THEN [totalPrincipal |-> 0, weightedPercentSum |-> RZero,
                  percentWeightBase |-> 0, term |-> 0]
            ELSE LET a == Agg(k - 1)
                     item == items[k]
                     principal == item.price * item.quantity
                     hasPercent == ~RIsZero(item.creditPercent)
                 IN  [totalPrincipal |-> a.totalPrincipal + principal,
                      weightedPercentSum |->
                          IF hasPercent
                          THEN RAdd(a.weightedPercentSum,
                                    RMul(RInt(principal), item.creditPercent))
                          ELSE a.weightedPercentSum,
                      percentWeightBase |->
                          IF hasPercent THEN a.percentWeightBase + principal
                          ELSE a.percentWeightBase,
                      term |-> IF item.creditMonth # 0
                               THEN Max(a.term, item.creditMonth) ELSE a.term]
    IN  Agg(Len(items))

\* effectivePercent = percentWeightBase > 0 ? weightedPercentSum / percentWeightBase : 0
EffectivePercent(a) ==
    IF a.percentWeightBase > 0
    THEN RDiv(a.weightedPercentSum, RInt(a.percentWeightBase))
    ELSE RZero

\* remainingPrincipal = max(0, totalPrincipal - upfrontPayment), plus its interest
RemainingWithInterest(totalPrincipal, upfrontPayment, effectivePercent) ==
    LET remainingPrincipal == RMax(RZero, RSub(RInt(totalPrincipal), upfrontPayment))
        interestAmount == RMul(remainingPrincipal, effectivePercent)
    IN  RAdd(remainingPrincipal, interestAmount)

\* mutant: the test for the last month is off by one
MonthlyRows_LastOffByOne(transactionId, remainingWithInterest, totalMonths, installmentType) ==
    LET monthlyPayment == RDiv(remainingWithInterest, RInt(totalMonths))
        RECURSIVE Rows(_, _)
        Rows(month, remainingBalance) ==
            IF month > totalMonths THEN <<>>
            ELSE LET currentPayment ==
                         IF month = totalMonths - 1 THEN remainingBalance ELSE monthlyPayment
                     newBalance == RSub(remainingBalance, currentPayment)
                 IN  <<[transactionId |-> transactionId, month |-> month,
                        payment |-> currentPayment,
                        remainingBalance |-> RMax(RZero, newBalance),
                        isPaid |-> FALSE, paidAmount |-> RZero,
                        installmentType |-> installmentType]>>
                     \o Rows(month + 1, newBalance)
    IN  Rows(1, remainingWithInterest)

\* the loop "for month = 1..totalMonths": the last month takes the balance left
MonthlyRows(transactionId, remainingWithInterest, totalMonths, installmentType) ==
    LET monthlyPayment == RDiv(remainingWithInterest, RInt(totalMonths))
        RECURSIVE Rows(_, _)
        Rows(month, remainingBalance) ==
            IF month > totalMonths THEN <<>>
            ELSE LET currentPayment ==
                         IF month = totalMonths THEN remainingBalance ELSE monthlyPayment
                     newBalance == RSub(remainingBalance, currentPayment)
                 IN  <<[transactionId |-> transactionId, month |-> month,
                        payment |-> currentPayment,
                        remainingBalance |-> RMax(RZero, newBalance),
                        isPaid |-> FALSE, paidAmount |-> RZero,
                        installmentType |-> installmentType]>>
                     \o Rows(month + 1, newBalance)
    IN  Rows(1, remainingWithInterest)

\* TransactionService.createPaymentSchedule: the rows it hands to createMany
CreatePaymentSchedule_NoPrincipalTest(transactionId, items, downPayment) ==
    LET a == AggregateItems(items)
    IN  IF a.term > 0
        THEN MonthlyRows(transactionId,
                 RemainingWithInterest(a.totalPrincipal, RInt(downPayment), EffectivePercent(a)),
                 a.term, "MONTHLY")
        ELSE <<>>

CreatePaymentSchedule(transactionId, items, downPayment) ==
    LET a == AggregateItems(items)
    IN  IF a.totalPrincipal > 0 /\ a.term > 0
        THEN MonthlyRows(transactionId,
                 RemainingWithInterest(a.totalPrincipal, RInt(downPayment), EffectivePercent(a)),
                 a.term, "MONTHLY")
        ELSE <<>>

\* TransactionService.createDailyPaymentSchedule: one row carrying the whole sum
CreateDailyPaymentSchedule(transactionId, items, downPayment) ==
    LET a == AggregateItems(items)
        remainingWithInterest ==
            RemainingWithInterest(a.totalPrincipal, RInt(downPayment), EffectivePercent(a))
    IN  IF a.totalPrincipal > 0 /\ a.term > 0
        THEN <<[transactionId |-> transactionId, month |-> 1,
                payment |-> remainingWithInterest,
                remainingBalance |-> remainingWithInterest,
                isPaid |-> FALSE, paidAmount |-> RZero,
                installmentType |-> "DAILY"]>>
        ELSE <<>>

(***************************************************************************)
(* DefectiveLogService.recalculatePaymentSchedules, in its four steps:     *)
(* findUnique, deleteMany, createMany, transaction.update.                 *)
(***************************************************************************)
\* findUnique with items and paymentSchedules: what the call works from
RecalcSnapshot(d, transactionId) ==
    IF TxExists(d, transactionId)
    THEN [found |-> TRUE, tx |-> d.txs[transactionId],
          paymentSchedules |-> SchedulesOf(d, transactionId),
          scheduleCount |-> Len(SchedulesOf(d, transactionId))]
    ELSE [found |-> FALSE, tx |-> <<>>, paymentSchedules |-> <<>>, scheduleCount |-> 0]

\* the first early return: only credit/installment transactions are recalculated
RecalcApplies(snap) == snap.found /\ snap.tx.paymentType \in CreditTypes

\* mutant: the rows of the snapshot are never deleted
RecalcDeletes_Never(snap) == FALSE

\* deleteMany runs iff the snapshot held rows
RecalcDeletes(snap) == snap.scheduleCount > 0

DeleteSchedules_KeepPaid(d, transactionId) ==
    [d EXCEPT !.schedules =
        SelectSeq(@, LAMBDA row : row.transactionId # transactionId \/ row.isPaid)]

DeleteSchedules(d, transactionId) ==
    [d EXCEPT !.schedules = SelectSeq(@, LAMBDA row : row.transactionId # transactionId)]

RemainingItems(items) == SelectSeq(items, LAMBDA item : item.quantity > 0)

\* originalUpfrontPayment * upfrontRatio, from the totals the code computes
ProportionalUpfront(tx) ==
    LET \* first pass: originalQuantity = item.quantity + 0
        orig == AggregateItems(tx.items)
        rem == AggregateItems(RemainingItems(tx.items))
        originalUpfrontPayment == RInt(tx.amountPaid)
        upfrontRatio == IF orig.totalPrincipal > 0
                        THEN RDiv(RInt(rem.totalPrincipal), RInt(orig.totalPrincipal))
                        ELSE RZero
    IN  RMul(originalUpfrontPayment, upfrontRatio)

\* everything computed between the deleteMany and the createMany
RecalcPlan(transactionId, tx) ==
    LET orig == AggregateItems(tx.items)
        rem == AggregateItems(RemainingItems(tx.items))
        totalMonths == orig.term
        remainingWithInterest ==
            RemainingWithInterest(rem.totalPrincipal, ProportionalUpfront(tx),
                                  EffectivePercent(rem))
    IN  IF Len(RemainingItems(tx.items)) = 0
        THEN [regenerates |-> FALSE, rows |-> <<>>, total |-> RZero, finalTotal |-> RZero]
        ELSE IF rem.totalPrincipal > 0 /\ totalMonths > 0
        THEN [regenerates |-> TRUE,
              rows |-> MonthlyRows(transactionId, remainingWithInterest, totalMonths, "NONE"),
              total |-> RInt(rem.totalPrincipal),
              finalTotal |-> remainingWithInterest]
        ELSE [regenerates |-> FALSE, rows |-> <<>>, total |-> RZero, finalTotal |-> RZero]

CreateSchedules(d, rows) == [d EXCEPT !.schedules = @ \o rows]

UpdateTotals(d, transactionId, plan) ==
    [d EXCEPT !.txs[transactionId].total = plan.total,
              !.txs[transactionId].finalTotal = plan.finalTotal]

\* the whole call, run without interruption
RecalculatePaymentSchedules(d, transactionId) ==
    LET snap == RecalcSnapshot(d, transactionId)
        d1 == IF RecalcDeletes(snap) THEN DeleteSchedules(d, transactionId) ELSE d
        plan == RecalcPlan(transactionId, snap.tx)
    IN  IF ~RecalcApplies(snap) THEN d
        ELSE IF ~plan.regenerates THEN d1
        ELSE UpdateTotals(CreateSchedules(d1, plan.rows), transactionId, plan)


(***************************************************************************)
(* Sale Mutation Orchestrator: TransactionService.create.                  *)
(***************************************************************************)
\* the request carries no customer
NoCustomer == [phone |-> 0, fullName |-> 0]

\* customer.findFirst({where: {phone}}): the id of a row with that phone (the one
\* created first), 0 when there is none
FindCustomer(d, phone) ==
    LET hits == {k \in 1..Len(d.customers) : d.customers[k].phone = phone}
    IN  IF hits = {} THEN 0 ELSE CHOOSE k \in hits : \A j \in hits : k <= j

\* the row found is updated where the request differs
UpdateCustomer(d, id, customer) ==
    IF customer.fullName # d.customers[id].fullName
    THEN [d EXCEPT !.customers[id].fullName = customer.fullName]
    ELSE d

\* customer.create
InsertCustomer(d, customer) ==
    [d EXCEPT !.customers = Append(@, [phone |-> customer.phone,
                                       fullName |-> customer.fullName])]

\* the resolution of the customer: found and updated, or created; customerId 0: null
UpsertCustomer(d, customer) ==
    LET existing == FindCustomer(d, customer.phone)
    IN  IF customer = NoCustomer THEN [db |-> d, customerId |-> 0]
        ELSE IF existing # 0
        THEN [db |-> UpdateCustomer(d, existing, customer), customerId |-> existing]
        ELSE [db |-> InsertCustomer(d, customer), customerId |-> Len(d.customers) + 1]

UpfrontPaymentTypes == {"CASH", "CARD", "TERMINAL"}
PaymentMethods == {"CASH", "CARD", "TERMINAL", "TOVAR"}

\* the payments kept by the filter: a positive amount and a known method
PaymentsData(payments) ==
    SelectSeq(payments, LAMBDA p : p.amount > 0 /\ p.method \in PaymentMethods)

\* the two validations of create: upfrontPaymentType, then the breakdown against the
\* item total
InvalidUpfrontPaymentType(req) ==
    req.upfrontPaymentType # "NONE" /\ req.upfrontPaymentType \notin UpfrontPaymentTypes

PaymentsMismatch(req) ==
    LET paymentsData == PaymentsData(req.payments)
        totalPayments == ISum([k \in 1..Len(paymentsData) |-> paymentsData[k].amount])
        computedTotal == AggregateItems(req.items).totalPrincipal
    IN  Len(req.payments) > 0
        /\ RRound(RInt(computedTotal)) # RRound(RInt(totalPayments))

RejectedByValidation(req) == InvalidUpfrontPaymentType(req) \/ PaymentsMismatch(req)

\* the TransactionItem rows of the nested create
CreateItems(items) ==
    [k \in 1..Len(items) |->
        [productId |-> items[k].productId,
         quantity |-> items[k].quantity,
         price |-> items[k].price,
         \* item.sellingPrice || item.price
         sellingPrice |-> IF items[k].sellingPrice # 0 THEN items[k].sellingPrice
                          ELSE items[k].price,
         total |-> items[k].price * items[k].quantity,
         creditMonth |-> items[k].creditMonth,
         creditPercent |-> items[k].creditPercent,
         status |-> "NONE",
         createdAt |-> 0,
         \* history: the quantity the line was created with
         soldQty |-> items[k].quantity]]

\* the totals computed once at sale time and the Transaction row created from them
NewTransaction(req) ==
    LET a == AggregateItems(req.items)
        computedTotal == a.totalPrincipal
        \* downPayment || amountPaid || 0
        upfrontPayment == IF req.downPayment # 0 THEN req.downPayment ELSE req.amountPaid
        remainingPrincipal == RMax(RZero, RInt(computedTotal - upfrontPayment))
        interestAmount == IF req.paymentType \in CreditTypes
                          THEN RMul(remainingPrincipal, EffectivePercent(a))
                          ELSE RZero
        remainingWithInterest == RAdd(remainingPrincipal, interestAmount)
        finalTotalOnce == RAdd(RInt(upfrontPayment), remainingWithInterest)
    IN  [type |-> req.type,
         paymentType |-> req.paymentType,
         termUnit |-> req.termUnit,
         total |-> RInt(computedTotal),
         finalTotal |-> finalTotalOnce,
         remainingBalance |-> remainingWithInterest,
         amountPaid |-> req.amountPaid,
         downPayment |-> req.downPayment,
         extraProfit |-> RZero,
         soldByUserId |-> req.soldByUserId,
         customerId |-> 0,
         \* ...cleanTransactionData carries the status of the request
         status |-> req.status,
         deleted |-> FALSE,
         items |-> CreateItems(req.items)]

\* mutant: the stock is decremented a second time, as by the inline decrement that
\* the quantity-decrement fix removed
UpdateProductQuantity_Twice(prod, type, item) ==
    LET p == item.productId
        newQuantity ==
            IF type = "SALE" THEN Max(0, prod[p].quantity - 2 * item.quantity)
            ELSE IF type = "PURCHASE" THEN prod[p].quantity + item.quantity
            ELSE prod[p].quantity
    IN  IF p \notin Products THEN prod
        ELSE [prod EXCEPT ![p].quantity = newQuantity,
                          ![p].status = IF type = "PURCHASE" THEN "IN_WAREHOUSE" ELSE "SOLD"]

\* one pass of the loop of updateProductQuantities: findUnique, then update
UpdateProductQuantity(prod, type, item) ==
    LET p == item.productId
        newQuantity ==
            IF type = "SALE" THEN Max(0, prod[p].quantity - item.quantity)
            ELSE IF type = "PURCHASE" THEN prod[p].quantity + item.quantity
            ELSE prod[p].quantity
        newStatus ==
            IF type = "SALE" THEN (IF newQuantity = 0 THEN "SOLD" ELSE "IN_STORE")
            ELSE IF type = "PURCHASE" THEN "IN_WAREHOUSE"
            ELSE prod[p].status
    IN  IF p \notin Products THEN prod
        ELSE [prod EXCEPT ![p].quantity = newQuantity, ![p].status = newStatus]

UpdateProductQuantities(prod, type, items) ==
    LET RECURSIVE Upd(_)
        Upd(k) == IF k = 0 THEN prod
                  ELSE UpdateProductQuantity(Upd(k - 1), type, items[k])
    IN  Upd(Len(items))

\* create after the customer is resolved: the validations, then the Transaction with
\* its items, the schedule, the stock
WriteSale(d0, req, customerId) ==
    LET id == Len(d0.txs) + 1
        tx == [NewTransaction(req) EXCEPT !.customerId = customerId]
        rows == IF tx.paymentType \in CreditTypes
                THEN IF tx.termUnit = "DAYS"
                     THEN CreateDailyPaymentSchedule(id, tx.items, req.downPayment)
                     ELSE CreatePaymentSchedule(id, tx.items, req.downPayment)
                ELSE <<>>
    IN  \* a validation that throws comes after the customer is resolved
        IF RejectedByValidation(req) THEN d0
        ELSE [d0 EXCEPT !.txs = Append(@, tx),
                        !.schedules = @ \o rows,
                        !.product = UpdateProductQuantities(@, tx.type, tx.items)]

\* the store after create: the customer, the Transaction with its items, the
\* schedule, the stock
CreateTransaction(d, req) ==
    LET customer == UpsertCustomer(d, req.customer)
    IN  WriteSale(customer.db, req, customer.customerId)

\* setTimeout(... calculateAndCreateSalesBonuses(transaction, soldByUserId ...), 2000):
\* the callback keeps the transaction object that create returned
SchedulesBonus(req) == req.soldByUserId # 0 /\ req.type = "SALE"

NewTimer(d, req) ==
    [transactionId |-> Len(d.txs) + 1, items |-> CreateItems(req.items),
     soldByUserId |-> req.soldByUserId]


(***************************************************************************)
(* Post-Sale Adjustment Orchestrator: DefectiveLogService.create.          *)
(* A request r carries productId, quantity, actionType, isFromSale,        *)
(* transactionId (0: none), branchId (0: none), cashAmountInput            *)
(* (NoAmount: none), cashAdjustmentDirection ("NONE": none),               *)
(* exchangeWithProductId, replacementQuantity (0: none) and                *)
(* replacementUnitPrice.                                                   *)
(***************************************************************************)
NoAmount == -1

\* tx.items.find(i => i.productId === productId): index of the first such line, or 0
FindLine(items, productId) ==
    LET hits == {k \in 1..Len(items) : items[k].productId = productId}
    IN  IF hits = {} THEN 0 ELSE CHOOSE k \in hits : \A j \in hits : k <= j

\* the validation before the atomic write: a DEFECTIVE not from a sale is checked
\* against the stock
RejectedBeforeWrite(d, r) ==
    r.actionType = "DEFECTIVE" /\ ~r.isFromSale /\ r.quantity > d.product[r.productId].quantity

\* the override sign times |cashAmountInput|
OverrideAmount(r) ==
    (IF r.cashAdjustmentDirection = "PLUS" THEN 1 ELSE -1) * Abs(r.cashAmountInput)

\* the switch on actionType: the cash amount and the new counters and status,
\* computed from the Product row read before the atomic write
Prepare(d, r) ==
    LET prod == d.product[r.productId]
        price == ProductPrice(r.productId)
        q == r.quantity
        line == IF r.isFromSale /\ r.transactionId # 0 /\ TxExists(d, r.transactionId)
                THEN FindLine(d.txs[r.transactionId].items, r.productId)
                ELSE 0
        \* (line?.sellingPrice ?? line?.price ?? product.price) || 0
        unit == IF line # 0 THEN d.txs[r.transactionId].items[line].sellingPrice
                ELSE price
        unchanged == [cashAmount |-> 0, quantity |-> prod.quantity,
                      defectiveQuantity |-> prod.defectiveQuantity,
                      returnedQuantity |-> prod.returnedQuantity,
                      exchangedQuantity |-> prod.exchangedQuantity,
                      status |-> prod.status]
    IN  CASE r.actionType = "DEFECTIVE" ->
                 LET newQuantity == IF r.isFromSale THEN prod.quantity
                                    ELSE Max(0, prod.quantity - q)
                 IN  [unchanged EXCEPT
                         !.cashAmount = -(price * q),
                         !.quantity = newQuantity,
                         !.defectiveQuantity = prod.defectiveQuantity + q,
                         !.status = IF newQuantity = 0 THEN "DEFECTIVE" ELSE "IN_STORE"]
          [] r.actionType = "FIXED" ->
                 [unchanged EXCEPT
                     !.cashAmount = price * q,
                     !.defectiveQuantity = Max(0, prod.defectiveQuantity - q),
                     !.quantity = prod.quantity + q,
                     !.status = "IN_STORE"]
          [] r.actionType = "RETURN" ->
                 [unchanged EXCEPT
                     !.cashAmount =
                         IF r.cashAmountInput # NoAmount /\ Abs(r.cashAmountInput) > 0
                            /\ r.cashAdjustmentDirection # "NONE"
                         THEN OverrideAmount(r)
                         ELSE IF r.isFromSale /\ r.transactionId # 0
                              THEN -(unit * q)
                              ELSE -(price * q),
                     !.returnedQuantity = prod.returnedQuantity + q,
                     !.status = "RETURNED",
                     !.quantity = prod.quantity + q]
          [] r.actionType = "EXCHANGE" ->
                 [unchanged EXCEPT
                     !.cashAmount =
                         IF r.cashAmountInput # NoAmount /\ r.cashAdjustmentDirection # "NONE"
                         THEN OverrideAmount(r)
                         ELSE price * q,
                     !.exchangedQuantity = prod.exchangedQuantity + q,
                     !.status = "EXCHANGED",
                     !.quantity = prod.quantity + q]

\* prisma.defectiveLog.create
InsertLog(d, r, prep) ==
    [d EXCEPT !.logs = Append(@, [productId |-> r.productId, quantity |-> r.quantity,
                                  actionType |-> r.actionType,
                                  cashAmount |-> prep.cashAmount,
                                  transactionId |-> r.transactionId,
                                  branchId |-> r.branchId])]

\* mutant: the update leaves the quantity out of its data
WriteProduct_NoQuantity(d, r, prep) ==
    [d EXCEPT !.product[r.productId] =
        [quantity |-> d.product[r.productId].quantity,
         defectiveQuantity |-> prep.defectiveQuantity,
         returnedQuantity |-> prep.returnedQuantity,
         exchangedQuantity |-> prep.exchangedQuantity, status |-> prep.status]]

\* prisma.product.update with the counters computed before the atomic write
WriteProduct(d, r, prep) ==
    [d EXCEPT !.product[r.productId] =
        [quantity |-> prep.quantity, defectiveQuantity |-> prep.defectiveQuantity,
         returnedQuantity |-> prep.returnedQuantity,
         exchangedQuantity |-> prep.exchangedQuantity, status |-> prep.status]]

\* the update of the original line on RETURN / EXCHANGE
ReduceLine(d, r, k) ==
    LET orig == d.txs[r.transactionId].items[k]
        remainingQty == Max(0, orig.quantity - r.quantity)
        unitPrice == orig.sellingPrice
    IN  IF remainingQty = 0
        THEN [d EXCEPT !.txs[r.transactionId].items[k].quantity = 0,
                       !.txs[r.transactionId].items[k].total = 0,
                       !.txs[r.transactionId].items[k].status = "RETURNED"]
        ELSE [d EXCEPT !.txs[r.transactionId].items[k].quantity = remainingQty,
                       !.txs[r.transactionId].items[k].total = remainingQty * unitPrice]

\* mutant: the rows are restocked and not deleted
RestockBonusProducts_KeepRows(d, transactionId) ==
    LET rows == SelectSeq(d.tbp, LAMBDA bp : bp.transactionId = transactionId)
        RECURSIVE Restock(_)
        Restock(k) ==
            IF k = 0 THEN d.product
            ELSE [Restock(k - 1) EXCEPT ![rows[k].productId].quantity = @ + rows[k].quantity]
    IN  [d EXCEPT !.product = Restock(Len(rows))]

\* the restock loop over the TransactionBonusProduct rows, then their deleteMany
RestockBonusProducts(d, transactionId) ==
    LET rows == SelectSeq(d.tbp, LAMBDA bp : bp.transactionId = transactionId)
        RECURSIVE Restock(_)
        Restock(k) ==
            IF k = 0 THEN d.product
            ELSE LET bp == rows[k]
                     prev == Restock(k - 1)
                 IN  \* the update of a Product that does not exist throws and is ignored
                     IF bp.productId \in Products
                     THEN [prev EXCEPT ![bp.productId].quantity = @ + bp.quantity]
                     ELSE prev
    IN  IF Len(rows) > 0
        THEN [d EXCEPT !.product = Restock(Len(rows)),
                       !.tbp = SelectSeq(@, LAMBDA bp : bp.transactionId # transactionId)]
        ELSE d

\* bonus.deleteMany for the transaction
DeleteBonuses(d, transactionId) ==
    [d EXCEPT !.bonuses = SelectSeq(@, LAMBDA b : b.transactionId # transactionId)]

\* newProfit = max(0, originalProfit - originalProfit * (quantity / originalQty)), where
\* originalQty = orig.quantity + quantity and orig is the line as read before its update
NewProfit(originalProfit, origQuantity, quantity) ==
    LET originalQty == origQuantity + quantity
        proportionalProfit == RMul(originalProfit, Rat(quantity, originalQty))
    IN  RMax(RZero, RSub(originalProfit, proportionalProfit))

AdjustExtraProfit(d, r, orig) ==
    [d EXCEPT !.txs[r.transactionId].extraProfit =
        NewProfit(d.txs[r.transactionId].extraProfit, orig.quantity, r.quantity)]

\* Math.max(1, Number(replacementQuantity || quantity) || quantity)
ReplacementQty(r) ==
    Max(1, IF r.replacementQuantity # 0 THEN r.replacementQuantity ELSE r.quantity)

\* findFirst({transactionId, productId, price}, orderBy createdAt desc): the lines
\* that may be returned (the latest; lines created together are in no fixed order)
ReplacementCandidates(d, r) ==
    LET items == d.txs[r.transactionId].items
        hits == {k \in 1..Len(items) :
                    /\ items[k].productId = r.exchangeWithProductId
                    /\ items[k].price = r.replacementUnitPrice}
    IN  {k \in hits : \A j \in hits : items[j].createdAt <= items[k].createdAt}

\* merge into the existing replacement line (pick), or create a new line
AddReplacementLine(d, r, pick) ==
    LET replacementQty == ReplacementQty(r)
        replPrice == r.replacementUnitPrice
        items == d.txs[r.transactionId].items
    IN  IF pick # 0
        THEN [d EXCEPT !.txs[r.transactionId].items[pick].quantity = @ + replacementQty,
                       !.txs[r.transactionId].items[pick].total =
                           (items[pick].quantity + replacementQty) * items[pick].sellingPrice]
        ELSE [d EXCEPT !.txs[r.transactionId].items =
                 Append(@, [productId |-> r.exchangeWithProductId,
                            quantity |-> replacementQty,
                            price |-> replPrice, sellingPrice |-> replPrice,
                            total |-> replacementQty * replPrice,
                            creditMonth |-> 0, creditPercent |-> RZero,
                            status |-> "NONE", createdAt |-> Len(d.logs),
                            soldQty |-> replacementQty])]

\* the stock of the replacement product: read, checked, written
TakeReplacementStock(d, r) ==
    LET repl == d.product[r.exchangeWithProductId]
    IN  [d EXCEPT !.product[r.exchangeWithProductId].quantity =
            Max(0, repl.quantity - ReplacementQty(r))]

\* branch.update({cashBalance: {increment: cashAmount}})
UpdateCashBalance_Unconditional(d, r, prep) ==
    [d EXCEPT !.cashBalance = @ + prep.cashAmount]

UpdateCashBalance(d, r, prep) ==
    IF r.branchId # 0 THEN [d EXCEPT !.cashBalance = @ + prep.cashAmount] ELSE d

\* The callback of prisma.$transaction: the writes in their order, up to the first
\* throw. Result: the store as written so far, whether it threw, and the recalc flag.
AtomicWrite(d, r, prep, pick) ==
    LET d1 == WriteProduct(InsertLog(d, r, prep), r, prep)
        linked == r.isFromSale /\ r.transactionId # 0 /\ TxExists(d1, r.transactionId)
        tx == d1.txs[r.transactionId]
        k == IF linked THEN FindLine(tx.items, r.productId) ELSE 0
        orig == tx.items[k]
        isReturn == r.actionType = "RETURN"
        isExchange == r.actionType = "EXCHANGE"
        d2 == IF isReturn \/ isExchange THEN ReduceLine(d1, r, k) ELSE d1
        d3 == IF isReturn
              THEN AdjustExtraProfit(
                       DeleteBonuses(RestockBonusProducts(d2, r.transactionId),
                                     r.transactionId), r, orig)
              ELSE d2
        d4 == IF isExchange THEN AddReplacementLine(d3, r, pick) ELSE d3
        replMissing == r.exchangeWithProductId \notin Products
        replShort == ReplacementQty(r) > d4.product[r.exchangeWithProductId].quantity
        d5 == IF isExchange THEN TakeReplacementStock(d4, r) ELSE d4
        recalc == tx.paymentType \in CreditTypes
    IN  IF k = 0
        THEN [db |-> UpdateCashBalance(d1, r, prep), thrown |-> FALSE,
              shouldRecalculate |-> FALSE]
        ELSE IF r.quantity > orig.quantity
        THEN [db |-> d1, thrown |-> TRUE, shouldRecalculate |-> FALSE]
        ELSE IF isExchange /\ replMissing
        THEN [db |-> d3, thrown |-> TRUE, shouldRecalculate |-> FALSE]
        ELSE IF isExchange /\ replShort
        THEN [db |-> d4, thrown |-> TRUE, shouldRecalculate |-> FALSE]
        ELSE [db |-> UpdateCashBalance(d5, r, prep), thrown |-> FALSE,
              shouldRecalculate |-> recalc]

\* The store calls of the callback of prisma.$transaction in the order they are
\* issued, each named by the table it writes, for a call that commits
AtomicWriteOrder(d, r, pick) ==
    LET linked == r.isFromSale /\ r.transactionId # 0 /\ TxExists(d, r.transactionId)
        k == IF linked THEN FindLine(d.txs[r.transactionId].items, r.productId) ELSE 0
        given == SelectSeq(d.tbp, LAMBDA bp : bp.transactionId = r.transactionId)
        restocked == [j \in 1..Len(given) |-> "product"]
        onLine == IF k = 0 \/ r.actionType \notin {"RETURN", "EXCHANGE"} THEN <<>>
                  ELSE <<"transactionItem">>
        onReturn == IF k = 0 \/ r.actionType # "RETURN" THEN <<>>
                    ELSE restocked
                         \o (IF Len(restocked) > 0 THEN <<"transactionBonusProduct">>
                             ELSE <<>>)
                         \o <<"bonus", "transaction">>
        onExchange == IF k = 0 \/ r.actionType # "EXCHANGE" THEN <<>>
                      ELSE <<"transactionItem", "product">>
        onBranch == IF r.branchId # 0 THEN <<"branch">> ELSE <<>>
    IN  <<"defectiveLog", "product">> \o onLine \o onReturn \o onExchange \o onBranch

\* mutant: the writes made before the throw stay
Transactional_NoRollback(d, result) == result.db

\* prisma.$transaction: the writes of a callback that throws are rolled back
Transactional(d, result) == IF result.thrown THEN d ELSE result.db

\* the lines findFirst may return for this request, 0 standing for "none"
ReplacementPicks(d, r) ==
    LET prep == Prepare(d, r)
        d1 == WriteProduct(InsertLog(d, r, prep), r, prep)
        linked == r.isFromSale /\ r.transactionId # 0 /\ TxExists(d1, r.transactionId)
        k == IF linked THEN FindLine(d1.txs[r.transactionId].items, r.productId) ELSE 0
        cands == ReplacementCandidates(ReduceLine(d1, r, k), r)
    IN  IF r.actionType = "EXCHANGE" /\ k # 0
           /\ r.quantity <= d1.txs[r.transactionId].items[k].quantity
           /\ r.exchangeWithProductId \in Products /\ cands # {}
        THEN cands ELSE {0}


(***************************************************************************)
(* Bonus/Penalty Calculator: TransactionService.calculateAndCreateSalesBonuses, *)
(* run by the timer of sale creation on the transaction object that create  *)
(* returned (its items as created), with the USD->UZS rate it resolves.     *)
(***************************************************************************)
\* the threshold under which a selling price is taken to be in USD
UsdThreshold == 10000

\* BonusService.create: inserts the Bonus row
BonusServiceCreate(d, row) == [d EXCEPT !.bonuses = Append(@, row)]

\* Math.round(Number(product.price) * usdToSomRate), 0 when the price is 0
CostInUzs(productId, rate) == ProductPrice(productId) * rate

\* the selling price of a line in UZS: a small positive price is converted
SellingPriceInUzs(item, rate) ==
    LET rawSp == item.sellingPrice
    IN  IF rawSp > 0 /\ RLt(RInt(rawSp), RMax(Rat(rate, 2), RInt(UsdThreshold)))
        THEN rawSp * rate
        ELSE rawSp

\* the giveaway cost: the TransactionBonusProduct rows, or else the zero-priced lines
BonusProductsOf(d, transactionId) ==
    SelectSeq(d.tbp, LAMBDA bp : bp.transactionId = transactionId)

PotentialBonusItems(items) ==
    SelectSeq(items, LAMBDA it : it.sellingPrice = 0 \/ it.price = 0)

TotalBonusProductsValue(d, timer, rate) ==
    LET rows == BonusProductsOf(d, timer.transactionId)
        fallback == PotentialBonusItems(timer.items)
    IN  IF Len(rows) > 0
        THEN ISum([k \in 1..Len(rows) |-> CostInUzs(rows[k].productId, rate) * rows[k].quantity])
        ELSE ISum([k \in 1..Len(fallback) |->
                      CostInUzs(fallback[k].productId, rate) * fallback[k].quantity])

\* the TransactionBonusProduct rows the fallback records
RecordFallback(d, timer) ==
    LET fallback == PotentialBonusItems(timer.items)
    IN  IF Len(BonusProductsOf(d, timer.transactionId)) > 0 THEN d
        ELSE [d EXCEPT !.tbp = @ \o
                 [k \in 1..Len(fallback) |->
                     [transactionId |-> timer.transactionId,
                      productId |-> fallback[k].productId,
                      quantity |-> fallback[k].quantity]]]

\* priceDifference of a line: (sellingPrice - cost) * quantity when it contributes
PriceDifference(item, rate) ==
    LET sellingPrice == SellingPriceInUzs(item, rate)
        costInUzs == CostInUzs(item.productId, rate)
    IN  IF sellingPrice > costInUzs /\ BonusPercentage(item.productId) > 0
        THEN (sellingPrice - costInUzs) * item.quantity
        ELSE 0

TotalPriceDifference(items, rate) ==
    ISum([k \in 1..Len(items) |-> PriceDifference(items[k], rate)])

\* mutant: the giveaway cost is not taken out of the pool
NetExtraPool_GiveawaysIgnored(d, timer, rate) ==
    Max(0, TotalPriceDifference(timer.items, rate))

\* max(0, round(totalPriceDifference) - round(totalBonusProductsValue))
NetExtraPool(d, timer, rate) ==
    Max(0, TotalPriceDifference(timer.items, rate) - TotalBonusProductsValue(d, timer, rate))

\* the bonus of one contributing line: its share of the pool times its percentage
BonusAmount(d, timer, rate, k) ==
    LET total == TotalPriceDifference(timer.items, rate)
        priceDifference == PriceDifference(timer.items[k], rate)
        share == IF total > 0 THEN Rat(priceDifference, total) ELSE RZero
        netExtraAmount == RRound(RMul(RInt(NetExtraPool(d, timer, rate)), share))
    IN  RRound(RMul(RInt(netExtraAmount),
                    Rat(BonusPercentage(timer.items[k].productId), 100)))

\* the second loop: one SALES_BONUS row per line with a positive bonus amount
CreateSalesBonuses(d, d0, timer, rate) ==
    LET RECURSIVE Loop(_)
        Loop(k) ==
            IF k = 0 THEN d
            ELSE IF PriceDifference(timer.items[k], rate) > 0
                    /\ BonusAmount(d0, timer, rate, k) > 0
                 THEN BonusServiceCreate(Loop(k - 1),
                          [transactionId |-> timer.transactionId,
                           userId |-> timer.soldByUserId,
                           amount |-> BonusAmount(d0, timer, rate, k),
                           reason |-> "SALES_BONUS"])
                 ELSE Loop(k - 1)
    IN  Loop(Len(timer.items))

\* mutant: the giveaway cost is left out of the margin
GrossDiffAfterBonusCost_NoGiveaways(d, timer, rate) ==
    LET items == timer.items
        sellingTotal == ISum([k \in 1..Len(items) |->
                                 SellingPriceInUzs(items[k], rate) * items[k].quantity])
        costTotal == ISum([k \in 1..Len(items) |->
                              CostInUzs(items[k].productId, rate) * items[k].quantity])
    IN  sellingTotal - costTotal

\* sellingTotal - (costTotal + bonusProductsCost)
GrossDiffAfterBonusCost(d, timer, rate) ==
    LET items == timer.items
        sellingTotal == ISum([k \in 1..Len(items) |->
                                 SellingPriceInUzs(items[k], rate) * items[k].quantity])
        costTotal == ISum([k \in 1..Len(items) |->
                              CostInUzs(items[k].productId, rate) * items[k].quantity])
    IN  sellingTotal - (costTotal + TotalBonusProductsValue(d, timer, rate))

\* the whole calculation: fallback rows, bonuses, extraProfit, penalty
CalculateAndCreateSalesBonuses(d, timer, rate) ==
    LET gross == GrossDiffAfterBonusCost(d, timer, rate)
        d1 == CreateSalesBonuses(RecordFallback(d, timer), d, timer, rate)
        \* transaction.update({extraProfit}); a missing row throws and is caught
        d2 == IF TxExists(d1, timer.transactionId)
              THEN [d1 EXCEPT !.txs[timer.transactionId].extraProfit = RInt(gross)]
              ELSE d1
    IN  IF gross < 0
        THEN BonusServiceCreate(d2, [transactionId |-> timer.transactionId,
                                     userId |-> timer.soldByUserId,
                                     amount |-> gross,
                                     reason |-> "SALES_PENALTY"])
        ELSE d2

\* a giveaway attached to a sale after its creation (by the caller of the sale)
AttachBonusProduct(d, transactionId, productId, quantity) ==
    [d EXCEPT !.tbp = Append(@, [transactionId |-> transactionId,
                                 productId |-> productId, quantity |-> quantity])]


(***************************************************************************)
(* Requests. Each specification below draws its requests from a small set  *)
(* that covers the cases of the claims checked under it.                   *)
(***************************************************************************)
NewProduct(q) ==
    [quantity |-> q, defectiveQuantity |-> 0, returnedQuantity |-> 0,
     exchangedQuantity |-> 0, status |-> "IN_STORE"]

Idle == [pc |-> "idle"]
ProcIds == {1, 2}

NoRequest == [kind |-> "none", ok |-> TRUE]

Item(p, q, sp, months, percent) ==
    [productId |-> p, quantity |-> q, price |-> ProductPrice(p), sellingPrice |-> sp,
     creditMonth |-> months, creditPercent |-> percent]

SaleRequest(type, paymentType, termUnit, downPayment, amountPaid, items) ==
    [type |-> type, paymentType |-> paymentType, termUnit |-> termUnit,
     downPayment |-> downPayment, amountPaid |-> amountPaid,
     soldByUserId |-> 1, items |-> items,
     customer |-> NoCustomer, upfrontPaymentType |-> "NONE", payments |-> <<>>,
     status |-> "PENDING"]

PostSaleRequest(actionType, p, q, linked) ==
    [actionType |-> actionType, productId |-> p, quantity |-> q,
     isFromSale |-> linked, transactionId |-> IF linked THEN 1 ELSE 0,
     branchId |-> 1, cashAmountInput |-> NoAmount, cashAdjustmentDirection |-> "NONE",
     exchangeWithProductId |-> NoProduct, replacementQuantity |-> 0,
     replacementUnitPrice |-> 0]

ActionTypes == {"DEFECTIVE", "FIXED", "RETURN", "EXCHANGE"}

(***************************************************************************)
(* Actions: one per request handled from start to response.                *)
(***************************************************************************)
\* TransactionService.create for a SALE or a PURCHASE
Sale(req) ==
    /\ Len(txs) < MaxTx
    /\ SetDB(CreateTransaction(DB, req))
    /\ timers' = IF SchedulesBonus(req) /\ ~RejectedByValidation(req)
                 THEN timers \cup {NewTimer(DB, req)} ELSE timers
    /\ last' = [kind |-> "sale", ok |-> ~RejectedByValidation(req), req |-> req,
                before |-> product]
    /\ UNCHANGED procs

\* the timer of a sale fires: the bonus calculation with the rate it resolves
DelayedBonus(timer, rate) ==
    /\ timer \in timers
    /\ SetDB(CalculateAndCreateSalesBonuses(DB, timer, rate))
    /\ timers' = timers \ {timer}
    /\ last' = [kind |-> "bonus", ok |-> TRUE, req |-> timer, rate |-> rate]
    /\ UNCHANGED procs

\* giveaways are attached to a sale after its creation
Attach(t, p, q) ==
    /\ TxExists(DB, t)
    /\ txs[t].type = "SALE"
    /\ Len(tbp) < MaxBonusProducts
    /\ SetDB(AttachBonusProduct(DB, t, p, q))
    /\ last' = [kind |-> "attach", ok |-> TRUE, req |-> <<t, p, q>>]
    /\ UNCHANGED <<timers, procs>>

\* what has been paid on the rows of a transaction
PaidOn(d, transactionId) ==
    LET rows == SchedulesOf(d, transactionId)
    IN  RSum([k \in 1..Len(rows) |-> rows[k].paidAmount])

\* DefectiveLogService.create, from the request to the response, the recalculation
\* after the commit included
PostSale(r) ==
    /\ Len(logs) < MaxLogs
    /\ IF RejectedBeforeWrite(DB, r)
       THEN /\ last' = [kind |-> "post", ok |-> FALSE, req |-> r]
            /\ UNCHANGED <<product, txs, schedules, logs, bonuses, tbp, customers, cashBalance>>
       ELSE \E pick \in ReplacementPicks(DB, r) :
                LET result == AtomicWrite(DB, r, Prepare(DB, r), pick)
                    committed == Transactional(DB, result)
                IN  /\ SetDB(IF ~result.thrown /\ result.shouldRecalculate
                             THEN RecalculatePaymentSchedules(committed, r.transactionId)
                             ELSE committed)
                    /\ last' = [kind |-> "post", ok |-> ~result.thrown, req |-> r,
                                writes |-> AtomicWriteOrder(DB, r, pick),
                                paidBefore |-> PaidOn(DB, r.transactionId)]
    /\ UNCHANGED <<timers, procs>>

(***************************************************************************)
(* Spec: stock and the post-sale actions, requests handled one at a time.  *)
(***************************************************************************)
StockItem(p, q) == Item(p, q, 0, 0, RZero)

StockSales ==
    {SaleRequest("SALE", "CASH", "MONTHS", 0, 0, <<StockItem(p, q)>>) :
        p \in Products, q \in 1..MaxQty}
    \cup {SaleRequest("PURCHASE", "CASH", "MONTHS", 0, 0, <<StockItem(1, q)>>) :
            q \in 1..MaxQty}
    \cup {SaleRequest("SALE", "CASH", "MONTHS", 0, 0, <<StockItem(1, q), StockItem(p, 1)>>) :
            q \in 1..MaxQty, p \in Products}
    \cup {SaleRequest("SALE", "CREDIT", "MONTHS", 0, 0, <<Item(1, MaxQty, 0, 3, Rat(1, 10))>>)}

StockPostSales ==
    {PostSaleRequest(a, p, q, TRUE) :
        a \in ActionTypes \ {"EXCHANGE"}, p \in Products, q \in 1..MaxQty}
    \cup {PostSaleRequest(a, p, 1, FALSE) : a \in ActionTypes \ {"EXCHANGE"}, p \in Products}
    \cup {[PostSaleRequest("EXCHANGE", 1, 1, linked) EXCEPT
              !.exchangeWithProductId = x, !.replacementQuantity = rq] :
            linked \in BOOLEAN, x \in Products, rq \in {0, MaxQty}}
    \cup {[PostSaleRequest("EXCHANGE", p, MaxQty, TRUE) EXCEPT
              !.exchangeWithProductId = x] : p \in Products, x \in {NoProduct, 1}}
    \cup {[PostSaleRequest("RETURN", 1, 1, TRUE) EXCEPT
              !.cashAmountInput = 5, !.cashAdjustmentDirection = "PLUS", !.branchId = b] :
            b \in {0, 1}}

InitStore ==
    /\ txs = <<>>
    /\ schedules = <<>>
    /\ logs = <<>>
    /\ bonuses = <<>>
    /\ tbp = <<>>
    /\ customers = <<>>
    /\ cashBalance = 0
    /\ timers = {}
    /\ procs = [p \in ProcIds |-> Idle]
    /\ last = NoRequest

Init ==
    /\ product \in {[p \in Products |-> NewProduct(IF p = 1 THEN q ELSE MaxQty)] :
                       q \in 0..MaxQty}
    /\ InitStore

Next ==
    \/ \E req \in StockSales : Sale(req)
    \/ \E r \in StockPostSales : PostSale(r)
    \/ \E t \in 1..MaxTx, p \in Products, q \in 1..MaxQty : Attach(t, p, q)

Spec == Init /\ [][Next]_vars


(***************************************************************************)
(* Properties of sale creation and of the post-sale actions (Spec).        *)
(***************************************************************************)
StoreVars == <<product, txs, schedules, logs, bonuses, tbp, customers, cashBalance>>

\* the units of product p on the lines of a sale request
UnitsOf(req, p) ==
    ISum([k \in 1..Len(req.items) |->
             IF req.items[k].productId = p THEN req.items[k].quantity ELSE 0])

\* the request is linked to a sale that holds a line of its product
LinkedLine(r) ==
    IF r.isFromSale /\ r.transactionId # 0 /\ TxExists(DB, r.transactionId)
    THEN FindLine(txs[r.transactionId].items, r.productId)
    ELSE 0

\* C7: creating a SALE changes the stock of each sold product once per item: the
\* quantity becomes max(0, quantity - units sold), the status SOLD iff that is 0 and
\* IN_STORE otherwise; a PURCHASE adds the units and sets IN_WAREHOUSE; the other
\* counters and the products not on the request are left alone.
C7_SaleStockOnce ==
    [][last'.kind = "sale" =>
        \A p \in Products :
            LET units == UnitsOf(last'.req, p)
                expected == IF last'.req.type = "SALE"
                            THEN Max(0, product[p].quantity - units)
                            ELSE product[p].quantity + units
            IN  IF units = 0 THEN product'[p] = product[p]
                ELSE /\ product'[p].quantity = expected
                     /\ product'[p].status =
                            IF last'.req.type = "PURCHASE" THEN "IN_WAREHOUSE"
                            ELSE IF expected = 0 THEN "SOLD" ELSE "IN_STORE"
                     /\ product'[p].defectiveQuantity = product[p].defectiveQuantity
                     /\ product'[p].returnedQuantity = product[p].returnedQuantity
                     /\ product'[p].exchangedQuantity = product[p].exchangedQuantity]_vars

\* a two-line sale of product 1 has run and sold its stock out
C7_Witness ==
    /\ last.kind = "sale"
    /\ last.req.type = "SALE"
    /\ Len(last.req.items) = 2
    /\ UnitsOf(last.req, 1) = MaxQty
    /\ last.before[1].quantity = MaxQty
    /\ product[1].quantity = 0
    /\ product[1].status = "SOLD"

\* C8: a RETURN, EXCHANGE or DEFECTIVE linked to a sale whose quantity exceeds the
\* quantity on the matching line is rejected and none of its writes persist: no
\* DefectiveLog row, no change to products, lines, bonus rows, cash balance or schedule.
C8_OverLineRejected ==
    [][(/\ last'.kind = "post"
        /\ last'.req.actionType \in {"RETURN", "EXCHANGE", "DEFECTIVE"}
        /\ LinkedLine(last'.req) # 0
        /\ last'.req.quantity >
               txs[last'.req.transactionId].items[LinkedLine(last'.req)].quantity)
       => (~last'.ok /\ UNCHANGED StoreVars /\ UNCHANGED procs)]_vars

\* a linked RETURN of more units than its line holds has been answered
C8_Witness ==
    /\ last.kind = "post"
    /\ ~last.ok
    /\ last.req.actionType = "RETURN"
    /\ LinkedLine(last.req) # 0
    /\ last.req.quantity > txs[1].items[LinkedLine(last.req)].quantity
    /\ Len(txs[1].items) = 2

\* the giveaway units of product p attached to transaction t
GiveawayUnits(t, p) ==
    ISum([k \in 1..Len(tbp) |->
             IF tbp[k].transactionId = t /\ tbp[k].productId = p
             THEN tbp[k].quantity ELSE 0])

\* C5: every accepted RETURN of a line of a sale restocks the giveaways the sale
\* still holds and deletes their rows, so a giveaway is restocked by the first such
\* RETURN only: a later one finds no row and leaves the giveaway's stock alone.
C5_GiveawaysRestockedOnce ==
    [][(/\ last'.kind = "post"
        /\ last'.ok
        /\ last'.req.actionType = "RETURN"
        /\ LinkedLine(last'.req) # 0)
       => LET r == last'.req
          IN  /\ \A p \in Products :
                     product'[p].quantity =
                         product[p].quantity + GiveawayUnits(r.transactionId, p)
                         + (IF p = r.productId THEN r.quantity ELSE 0)
              /\ \A k \in 1..Len(tbp') : tbp'[k].transactionId # r.transactionId]_vars

\* two RETURNs of product 1 against sale 1 have run and its giveaway of product 2 is
\* back in stock once
C5_Witness ==
    /\ Len(logs) = 2
    /\ \A k \in 1..2 : /\ logs[k].actionType = "RETURN"
                       /\ logs[k].transactionId = 1
                       /\ logs[k].productId = 1
    /\ last.kind = "post"
    /\ last.ok
    /\ LinkedLine(last.req) # 0
    /\ tbp = <<>>
    /\ product[2].quantity = MaxQty + 1

\* C4 as claimed: a SALE of q units of a product on one line, followed at once by the
\* full RETURN of that line, leaves the product's quantity at its value before the sale.
C4_RoundTripAlways ==
    [][(/\ last.kind = "sale"
        /\ last.req.type = "SALE"
        /\ last'.kind = "post"
        /\ last'.ok
        /\ last'.req.actionType = "RETURN"
        /\ last'.req.transactionId = Len(txs)
        /\ LinkedLine(last'.req) # 0
        /\ UnitsOf(last.req, last'.req.productId) = last'.req.quantity
        /\ Len(SelectSeq(last.req.items,
                         LAMBDA it : it.productId = last'.req.productId)) = 1)
       => product'[last'.req.productId].quantity
              = last.before[last'.req.productId].quantity]_vars

\* C4 as amended: the same, for a sale the stock covered (quantity before >= q)
C4_RoundTripWhenCovered ==
    [][(/\ last.kind = "sale"
        /\ last.req.type = "SALE"
        /\ last'.kind = "post"
        /\ last'.ok
        /\ last'.req.actionType = "RETURN"
        /\ last'.req.transactionId = Len(txs)
        /\ LinkedLine(last'.req) # 0
        /\ UnitsOf(last.req, last'.req.productId) = last'.req.quantity
        /\ Len(SelectSeq(last.req.items,
                         LAMBDA it : it.productId = last'.req.productId)) = 1
        /\ last.before[last'.req.productId].quantity >= last'.req.quantity)
       => product'[last'.req.productId].quantity
              = last.before[last'.req.productId].quantity]_vars

\* the full RETURN of a covered one-line sale of MaxQty units has just run
C4_Witness ==
    /\ last.kind = "post"
    /\ last.ok
    /\ last.req.actionType = "RETURN"
    /\ last.req.quantity = MaxQty
    /\ Len(logs) = 1
    /\ Len(txs) = 1
    /\ txs[1].type = "SALE"
    /\ Len(txs[1].items) = 1
    /\ txs[1].items[1].productId = last.req.productId
    /\ txs[1].items[1].soldQty = MaxQty
    /\ txs[1].items[1].status = "RETURNED"
    /\ product[last.req.productId].quantity = MaxQty
    /\ product[last.req.productId].returnedQuantity = MaxQty

\* the replacement quantity of an EXCHANGE request: replacementQuantity, else quantity
RequestedReplacement(r) ==
    IF r.replacementQuantity # 0 THEN r.replacementQuantity ELSE r.quantity

\* C9 as claimed: every accepted EXCHANGE adds qty to the returned product's stock and
\* takes replacementQty from the replacement product's stock; an EXCHANGE whose
\* replacementQty exceeds the replacement product's stock is rejected and leaves the
\* products, the lines and the log unchanged.
C9_ExchangeMovesStock ==
    [][(/\ last'.kind = "post"
        /\ last'.req.actionType = "EXCHANGE"
        /\ last'.req.exchangeWithProductId \in Products)
       => LET r == last'.req
              x == r.exchangeWithProductId
              rq == RequestedReplacement(r)
          IN  IF rq > product[x].quantity
              THEN ~last'.ok /\ UNCHANGED <<product, txs, logs>>
              ELSE last'.ok =>
                     \A p \in Products :
                         product'[p].quantity =
                             product[p].quantity
                             + (IF p = r.productId THEN r.quantity ELSE 0)
                             - (IF p = x THEN rq ELSE 0)]_vars


(***************************************************************************)
(* SpecCredit: credit and installment sales and the recomputation of their *)
(* schedule after post-sale actions, requests handled one at a time.       *)
(***************************************************************************)
CreditItemLists ==
    LET first == {Item(1, q, 0, m, pc) :
                     q \in 1..MaxQty, m \in {0, 3}, pc \in {RZero, Rat(1, 10)}}
        second == {Item(2, q, 0, m, pc) :
                      q \in 1..MaxQty, m \in {0, 2}, pc \in {RZero, Rat(1, 5)}}
    IN  {<<i>> : i \in first} \cup {<<i, j>> : i \in first, j \in second}

CreditSales ==
    {SaleRequest("SALE", "CREDIT", unit, pay[1], pay[2], items) :
        unit \in {"MONTHS", "DAYS"}, pay \in {<<0, 0>>, <<50, 50>>, <<0, 50>>},
        items \in CreditItemLists}
    \cup {SaleRequest("SALE", pt, "MONTHS", 300, 300, items) :
            pt \in {"INSTALLMENT", "CASH"}, items \in CreditItemLists}

CreditPostSales ==
    {PostSaleRequest("RETURN", p, q, TRUE) : p \in Products, q \in 1..MaxQty}
    \cup {PostSaleRequest(a, 1, 1, TRUE) : a \in {"DEFECTIVE", "FIXED"}}
    \cup {[PostSaleRequest("EXCHANGE", 1, 1, TRUE) EXCEPT
              !.exchangeWithProductId = 2, !.replacementUnitPrice = price] :
            price \in {0, 40}}

InitCredit ==
    /\ product = [p \in Products |-> NewProduct(MaxQty)]
    /\ InitStore

NextCredit ==
    \/ \E req \in CreditSales : Sale(req)
    \/ \E r \in CreditPostSales : PostSale(r)

SpecCredit == InitCredit /\ [][NextCredit]_vars

(***************************************************************************)
(* Properties of the schedules (SpecCredit).                               *)
(***************************************************************************)
\* the row of the last period of a schedule
LastRow(rows) == CHOOSE row \in {rows[k] : k \in 1..Len(rows)} :
                     \A k \in 1..Len(rows) : rows[k].month <= row.month

Payments(rows) == [k \in 1..Len(rows) |-> rows[k].payment]

\* remainingWithInterest of the schedule a transaction holds: that of its creation
\* (from the items and the down payment), or the one the recomputation stored
ScheduleRemainingWithInterest(t) ==
    LET rows == SchedulesOf(DB, t)
        a == AggregateItems(txs[t].items)
    IN  IF rows[1].installmentType = "NONE"
        THEN txs[t].finalTotal
        ELSE RemainingWithInterest(a.totalPrincipal, RInt(txs[t].downPayment),
                                   EffectivePercent(a))

\* C1 as claimed: the payments of every generated schedule (creation in MONTHS or
\* DAYS mode, recomputation) sum to remainingWithInterest and the last row's
\* remainingBalance is 0.
C1_SumAndZeroBalance ==
    \A t \in 1..Len(txs) :
        LET rows == SchedulesOf(DB, t)
        IN  rows # <<>> =>
                /\ RSum(Payments(rows)) = ScheduleRemainingWithInterest(t)
                /\ LastRow(rows).remainingBalance = RZero

\* C1 as amended: the payments sum to remainingWithInterest; the last row's
\* remainingBalance is 0 in a monthly schedule (creation in MONTHS mode and every
\* recomputation), and is remainingWithInterest in the one row of DAYS mode.
C1_SumAndFinalBalance ==
    \A t \in 1..Len(txs) :
        LET rows == SchedulesOf(DB, t)
        IN  rows # <<>> =>
                /\ RSum(Payments(rows)) = ScheduleRemainingWithInterest(t)
                /\ LastRow(rows).remainingBalance =
                       IF rows[1].installmentType = "DAILY"
                       THEN ScheduleRemainingWithInterest(t)
                       ELSE RZero

\* a recomputed schedule of three uneven-looking payments with interest is held
C1_Witness ==
    /\ Len(txs) = 1
    /\ last.kind = "post"
    /\ last.ok
    /\ Len(SchedulesOf(DB, 1)) = 3
    /\ SchedulesOf(DB, 1)[1].installmentType = "NONE"
    /\ RIsPos(SchedulesOf(DB, 1)[3].payment)
    /\ SchedulesOf(DB, 1)[1].payment[2] # 1

\* the principal of the lines as sold, and as they stand
OriginalPrincipal(t) ==
    ISum([k \in 1..Len(txs[t].items) |-> txs[t].items[k].price * txs[t].items[k].soldQty])

CurrentPrincipal(t) ==
    ISum([k \in 1..Len(txs[t].items) |-> txs[t].items[k].price * txs[t].items[k].quantity])

\* C3: the recomputation after a partial return that took the principal from P0 to P1
\* subtracts the upfront U0 * P1 / P0 from the new principal (so the stored finalTotal
\* is that remainder with its interest).
C3_ProportionalUpfront ==
    (/\ last.kind = "post"
     /\ last.ok
     /\ last.req.actionType = "RETURN"
     /\ LinkedLine(last.req) # 0
     /\ txs[1].paymentType \in CreditTypes
     /\ SchedulesOf(DB, 1) # <<>>
     /\ 0 < CurrentPrincipal(1)
     /\ CurrentPrincipal(1) < OriginalPrincipal(1))
    => txs[1].finalTotal =
           RemainingWithInterest(
               CurrentPrincipal(1),
               RMul(RInt(txs[1].amountPaid),
                    Rat(CurrentPrincipal(1), OriginalPrincipal(1))),
               EffectivePercent(AggregateItems(RemainingItems(txs[1].items))))


(***************************************************************************)
(* SpecBonus: sales above and below cost, giveaways, the delayed bonus     *)
(* calculation and returns, requests handled one at a time.                *)
(***************************************************************************)
\* the USD->UZS rates the calculation may resolve
Rates == {1, 2}

BonusItemLists ==
    LET first == {Item(1, q, sp, 0, RZero) : q \in 1..MaxQty, sp \in {0, 150}}
        second == {Item(2, q, sp, 0, RZero) : q \in 1..MaxQty, sp \in {0, 10}}
    IN  {<<i>> : i \in first} \cup {<<i, j>> : i \in first, j \in second}

BonusSales == {SaleRequest("SALE", "CASH", "MONTHS", 0, 0, items) : items \in BonusItemLists}

BonusPostSales == {PostSaleRequest("RETURN", p, q, TRUE) : p \in Products, q \in 1..MaxQty}

NextBonus ==
    \/ \E req \in BonusSales : Sale(req)
    \/ \E timer \in timers, rate \in Rates : DelayedBonus(timer, rate)
    \/ \E t \in 1..MaxTx, p \in Products, q \in 1..MaxQty : Attach(t, p, q)
    \/ \E r \in BonusPostSales : PostSale(r)

SpecBonus == InitCredit /\ [][NextBonus]_vars

(***************************************************************************)
(* Properties of the bonus records and of extraProfit (SpecBonus).         *)
(***************************************************************************)
BonusRows(t, reason) ==
    SelectSeq(bonuses, LAMBDA b : b.transactionId = t /\ b.reason = reason)

\* the lines of a timer's sale that sold above cost with a bonus percentage
ContributingLines(timer, rate) ==
    {k \in 1..Len(timer.items) :
        /\ SellingPriceInUzs(timer.items[k], rate) > CostInUzs(timer.items[k].productId, rate)
        /\ BonusPercentage(timer.items[k].productId) > 0}

\* the margin of a timer's sale: selling total minus cost and giveaway cost; the same
\* for every rate, prices and costs being converted alike
Margin(timer) == GrossDiffAfterBonusCost(DB, timer, 1)

\* C6: the bonus calculation of a sale leaves either one SALES_BONUS record per line
\* with a positive price difference and bonus percentage (margin not negative), or
\* exactly one SALES_PENALTY record (margin negative), never both.
C6_BonusOrPenalty ==
    last.kind = "bonus" =>
        LET timer == last.req
            t == timer.transactionId
        IN  IF Margin(timer) >= 0
            THEN /\ Len(BonusRows(t, "SALES_PENALTY")) = 0
                 /\ Len(BonusRows(t, "SALES_BONUS")) = Cardinality(ContributingLines(timer, 1))
            ELSE /\ Len(BonusRows(t, "SALES_PENALTY")) = 1
                 /\ Len(BonusRows(t, "SALES_BONUS")) = 0

\* C10: an accepted RETURN of q units of a line holding Q units, on a transaction with
\* extraProfit E, sets extraProfit to max(0, E - E * q / Q): to 0 when q = Q.
C10_ExtraProfitReduced ==
    [][(/\ last'.kind = "post"
        /\ last'.ok
        /\ last'.req.actionType = "RETURN"
        /\ Len(logs') = Len(logs) + 1
        /\ LinkedLine(last'.req) # 0)
       => LET r == last'.req
              E == txs[r.transactionId].extraProfit
              Q == txs[r.transactionId].items[LinkedLine(r)].quantity
          IN  txs'[r.transactionId].extraProfit =
                  RMax(RZero, RSub(E, RMul(E, Rat(r.quantity, Q))))]_vars


(***************************************************************************)
(* SpecConc: two post-sale requests in flight at once. The atomic write of *)
(* a request is one step; the recalculation that follows its commit runs   *)
(* outside the database transaction, one step per awaited query:           *)
(* findUnique, deleteMany, createMany, transaction.update.                 *)
(***************************************************************************)
ConcSales ==
    {SaleRequest("SALE", "CREDIT", "MONTHS", 0, 0, <<Item(1, MaxQty, 0, m, pc)>>) :
        m \in {2, 3}, pc \in {RZero, Rat(1, 10)}}

ConcPostSales ==
    {PostSaleRequest(a, 1, 1, TRUE) : a \in {"RETURN", "DEFECTIVE"}}
    \cup {[PostSaleRequest("EXCHANGE", 1, 1, TRUE) EXCEPT
              !.exchangeWithProductId = 2, !.replacementUnitPrice = 40]}

\* DefectiveLogService.create up to the commit of its atomic write; the
\* recalculation it asks for is left to the steps below
Begin(i, r) ==
    /\ procs[i] = Idle
    /\ Len(logs) < MaxLogs
    /\ IF RejectedBeforeWrite(DB, r)
       THEN /\ last' = [kind |-> "post", ok |-> FALSE, req |-> r]
            /\ UNCHANGED <<product, txs, schedules, logs, bonuses, tbp, customers, cashBalance, procs>>
       ELSE \E pick \in ReplacementPicks(DB, r) :
                LET result == AtomicWrite(DB, r, Prepare(DB, r), pick)
                IN  /\ SetDB(Transactional(DB, result))
                    /\ procs' = [procs EXCEPT ![i] =
                           IF ~result.thrown /\ result.shouldRecalculate
                           THEN [pc |-> "find", transactionId |-> r.transactionId]
                           ELSE Idle]
                    /\ last' = [kind |-> "post", ok |-> ~result.thrown, req |-> r]
    /\ UNCHANGED timers

\* transaction.findUnique with items and paymentSchedules, and the first early return
RecalcFind(i) ==
    /\ procs[i].pc = "find"
    /\ LET snap == RecalcSnapshot(DB, procs[i].transactionId)
       IN  procs' = [procs EXCEPT ![i] =
               IF RecalcApplies(snap)
               THEN [pc |-> "delete", transactionId |-> procs[i].transactionId,
                     snap |-> snap]
               ELSE Idle]
    /\ last' = [kind |-> "recalc", ok |-> TRUE, req |-> i]
    /\ UNCHANGED <<product, txs, schedules, logs, bonuses, tbp, customers, cashBalance, timers>>

\* paymentSchedule.deleteMany when the snapshot held rows, then the plan computed
\* from the snapshot and its early returns
RecalcDelete(i) ==
    /\ procs[i].pc = "delete"
    /\ LET t == procs[i].transactionId
           plan == RecalcPlan(t, procs[i].snap.tx)
       IN  /\ SetDB(IF RecalcDeletes(procs[i].snap) THEN DeleteSchedules(DB, t) ELSE DB)
           /\ procs' = [procs EXCEPT ![i] =
                  IF plan.regenerates
                  THEN [pc |-> "create", transactionId |-> t, plan |-> plan,
                        snap |-> procs[i].snap]
                  ELSE Idle]
    /\ last' = [kind |-> "recalc", ok |-> TRUE, req |-> i]
    /\ UNCHANGED timers

\* paymentSchedule.createMany
RecalcCreate(i) ==
    /\ procs[i].pc = "create"
    /\ SetDB(CreateSchedules(DB, procs[i].plan.rows))
    /\ procs' = [procs EXCEPT ![i].pc = "update"]
    /\ last' = [kind |-> "recalc", ok |-> TRUE, req |-> i]
    /\ UNCHANGED timers

\* transaction.update of total and finalTotal
RecalcUpdate(i) ==
    /\ procs[i].pc = "update"
    /\ SetDB(UpdateTotals(DB, procs[i].transactionId, procs[i].plan))
    /\ procs' = [procs EXCEPT ![i] = Idle]
    /\ last' = [kind |-> "recalc", ok |-> TRUE, req |-> i]
    /\ UNCHANGED timers

NextConc ==
    \/ \E req \in ConcSales : Sale(req)
    \/ \E i \in ProcIds, r \in ConcPostSales : Begin(i, r)
    \/ \E i \in ProcIds : RecalcFind(i)
    \/ \E i \in ProcIds : RecalcDelete(i)
    \/ \E i \in ProcIds : RecalcCreate(i)
    \/ \E i \in ProcIds : RecalcUpdate(i)

SpecConc == InitCredit /\ [][NextConc]_vars

\* C2: once the post-sale actions on a credit transaction and their recomputations,
\* interleaved or not, have all finished, no two PaymentSchedule rows of a transaction
\* share a month number.
C2_UniqueMonths ==
    (\A i \in ProcIds : procs[i] = Idle) =>
        \A j, k \in 1..Len(schedules) :
            (j # k /\ schedules[j].transactionId = schedules[k].transactionId)
                => schedules[j].month # schedules[k].month

(***************************************************************************)
(* Properties of the recomputation with no line left (SpecCredit).         *)
(***************************************************************************)
\* the request of this step is an accepted post-sale action on a line of a credit or
\* installment sale, after which every line of the sale has quantity 0
RecomputedWithNothingLeft ==
    /\ last'.kind = "post"
    /\ last'.ok
    /\ Len(logs') = Len(logs) + 1
    /\ LinkedLine(last'.req) # 0
    /\ txs[last'.req.transactionId].paymentType \in CreditTypes
    /\ \A k \in 1..Len(txs'[last'.req.transactionId].items) :
           txs'[last'.req.transactionId].items[k].quantity = 0

\* C11 as claimed: the recomputation of a credit/installment transaction whose items
\* all have quantity 0 changes nothing: its PaymentSchedule rows, total and finalTotal
\* are as before.
C11_NothingLeftNoOp ==
    [][RecomputedWithNothingLeft
       => LET t == last'.req.transactionId
          IN  /\ SelectSeq(schedules', LAMBDA row : row.transactionId = t)
                     = SchedulesOf(DB, t)
              /\ txs'[t].total = txs[t].total
              /\ txs'[t].finalTotal = txs[t].finalTotal]_vars

\* C11 as amended: that recomputation deletes the transaction's PaymentSchedule rows
\* and creates none; total and finalTotal are left as before.
C11_NothingLeftDeletesRows ==
    [][RecomputedWithNothingLeft
       => LET t == last'.req.transactionId
          IN  /\ SelectSeq(schedules', LAMBDA row : row.transactionId = t) = <<>>
              /\ \A k \in 1..Len(schedules') :
                     \E j \in 1..Len(schedules) : schedules'[k] = schedules[j]
              /\ txs'[t].total = txs[t].total
              /\ txs'[t].finalTotal = txs[t].finalTotal]_vars

\* the one line of a credit sale that came with a schedule has been returned in full,
\* and the sale holds no rows while its finalTotal still carries the amount due
C11_Witness ==
    /\ Len(txs) = 1
    /\ txs[1].paymentType \in CreditTypes
    /\ Len(txs[1].items) = 1
    /\ txs[1].items[1].quantity = 0
    /\ txs[1].items[1].creditMonth > 0
    /\ Len(logs) = 1
    /\ last.kind = "post"
    /\ last.ok
    /\ last.req.actionType = "RETURN"
    /\ SchedulesOf(DB, 1) = <<>>
    /\ RIsPos(txs[1].finalTotal)

(***************************************************************************)
(* SpecFail: one post-sale request at a time, whose recalculation may fail *)
(* at any of its awaited queries. The query that throws writes nothing;    *)
(* the catch around the call swallows the error and create returns.        *)
(***************************************************************************)
\* an awaited query of the recalculation rejects: findUnique, deleteMany, createMany
\* or transaction.update, according to where the call stands
RecalcThrow(i) ==
    /\ procs[i].pc \in {"find", "delete", "create", "update"}
    /\ procs' = [procs EXCEPT ![i] = Idle]
    /\ last' = [kind |-> "recalcFailed", ok |-> TRUE, req |-> procs[i],
                rows |-> IF procs[i].pc = "find"
                         THEN SchedulesOf(DB, procs[i].transactionId)
                         ELSE procs[i].snap.paymentSchedules]
    /\ UNCHANGED <<product, txs, schedules, logs, bonuses, tbp, customers, cashBalance, timers>>

NextFail ==
    \/ \E req \in ConcSales : Sale(req)
    \/ \E r \in ConcPostSales : Begin(1, r)
    \/ RecalcFind(1)
    \/ RecalcDelete(1)
    \/ RecalcCreate(1)
    \/ RecalcUpdate(1)
    \/ RecalcThrow(1)

SpecFail == InitCredit /\ [][NextFail]_vars

\* C12: when the recalculation that follows a committed post-sale write fails at any
\* of its steps, the action still succeeds and the transaction keeps the schedule
\* rows it had before the recalculation: not none, not a partial or a new set.
C12_FailedRecalcKeepsRows ==
    last.kind = "recalcFailed" =>
        /\ last.ok
        /\ SchedulesOf(DB, last.req.transactionId) = last.rows

(***************************************************************************)
(* SpecSale: sale creation alone, over requests that vary the customer,    *)
(* the upfront payment type, the payment breakdown and the credit terms.   *)
(***************************************************************************)
Customer(phone, fullName) == [phone |-> phone, fullName |-> fullName]

Payment(method, amount) == [method |-> method, amount |-> amount]

SaleCustomers == {NoCustomer, Customer(1, "a"), Customer(1, "b"), Customer(2, "a")}

\* breakdowns for a total of 100 or 200: exact, split, with an entry the filter
\* drops, and short
SalePayments ==
    {<<>>, <<Payment("CASH", 100)>>, <<Payment("CASH", 60), Payment("CARD", 40)>>,
     <<Payment("CASH", 100), Payment("CHEQUE", 100)>>, <<Payment("CASH", 50)>>}

ValidationSales ==
    {[SaleRequest("SALE", "CASH", "MONTHS", 0, 0, <<StockItem(1, q)>>) EXCEPT
         !.customer = c, !.upfrontPaymentType = u, !.payments = ps] :
        q \in 1..MaxQty, c \in SaleCustomers, u \in {"NONE", "CASH", "BANK"},
        ps \in SalePayments}

ScheduleItemLists ==
    LET first == {[Item(1, q, 0, m, pc) EXCEPT !.price = pr] :
                     q \in 1..MaxQty, m \in {0, 3}, pc \in {RZero, Rat(1, 10)},
                     pr \in {0, 100}}
    IN  {<<i>> : i \in first} \cup {<<i, Item(2, 1, 0, 2, RZero)>> : i \in first}

ScheduleSales ==
    {SaleRequest("SALE", pt, unit, 0, 0, items) :
        pt \in {"CREDIT", "INSTALLMENT", "CASH"}, unit \in {"MONTHS", "DAYS"},
        items \in ScheduleItemLists}

NextSale == \E req \in ValidationSales \cup ScheduleSales : Sale(req)

SpecSale == InitCredit /\ [][NextSale]_vars

\* C13: a sale request rejected by validation (upfrontPaymentType outside CASH, CARD,
\* TERMINAL, or a payment breakdown whose rounded sum differs from the rounded item
\* total) leaves the store unchanged: no Customer is created or updated and no
\* Transaction, item, schedule or stock write persists.
C13_RejectedSaleWritesNothing ==
    [][(last'.kind = "sale" /\ ~last'.ok) => UNCHANGED StoreVars]_vars

\* the principal and the term of a sale request, from its items
RequestPrincipal(req) ==
    ISum([k \in 1..Len(req.items) |-> req.items[k].price * req.items[k].quantity])

RECURSIVE MaxCreditMonth(_)
MaxCreditMonth(items) ==
    IF items = <<>> THEN 0 ELSE Max(Head(items).creditMonth, MaxCreditMonth(Tail(items)))

\* C17: sale creation produces no PaymentSchedule rows when the total principal is 0,
\* when the term is 0 or when paymentType is not CREDIT/INSTALLMENT; otherwise exactly
\* term rows with months 1..term for MONTHS, or exactly one row for DAYS.
C17_RowsOfCreation ==
    (last.kind = "sale" /\ last.ok) =>
        LET req == last.req
            rows == SchedulesOf(DB, Len(txs))
            term == MaxCreditMonth(req.items)
        IN  IF RequestPrincipal(req) = 0 \/ term = 0 \/ req.paymentType \notin CreditTypes
            THEN rows = <<>>
            ELSE IF req.termUnit = "DAYS"
            THEN Len(rows) = 1
            ELSE /\ Len(rows) = term
                 /\ \A k \in 1..term : rows[k].month = k

\* a two-line credit sale in MONTHS mode with terms 3 and 2 has its three rows
C17_Witness ==
    /\ last.kind = "sale"
    /\ last.ok
    /\ last.req.paymentType \in CreditTypes
    /\ last.req.termUnit = "MONTHS"
    /\ Len(last.req.items) = 2
    /\ MaxCreditMonth(last.req.items) = 3
    /\ Len(SchedulesOf(DB, Len(txs))) = 3

(***************************************************************************)
(* SpecBonusFail: the delayed bonus calculation with a query that rejects. *)
(* The fallback create, the extraProfit update and the penalty create each *)
(* sit in a try/catch of their own and the calculation goes on after them; *)
(* a rejection at the start (seller, rate, giveaway rows) or in a          *)
(* SALES_BONUS create ends the calculation in its outer catch.             *)
(***************************************************************************)
FailurePoints == {"start", "fallback", "bonus", "extraProfit", "penalty"}

\* mutant: a calculation that fails at its start takes the sale's schedule with it
CalculateWithFailure_UndoesSchedule(d, timer, rate, fail) ==
    IF fail = "start" THEN DeleteSchedules(d, timer.transactionId)
    ELSE CalculateAndCreateSalesBonuses(d, timer, rate)

\* calculateAndCreateSalesBonuses when the query named by fail rejects
CalculateWithFailure(d, timer, rate, fail) ==
    LET gross == GrossDiffAfterBonusCost(d, timer, rate)
        recorded == IF fail = "fallback" THEN d ELSE RecordFallback(d, timer)
        d1 == CreateSalesBonuses(recorded, d, timer, rate)
        d2 == IF fail # "extraProfit" /\ TxExists(d1, timer.transactionId)
              THEN [d1 EXCEPT !.txs[timer.transactionId].extraProfit = RInt(gross)]
              ELSE d1
    IN  CASE fail = "start" -> d
          [] fail = "bonus" /\ d1 # recorded -> recorded
          [] OTHER ->
                 IF gross < 0 /\ fail # "penalty"
                 THEN BonusServiceCreate(d2, [transactionId |-> timer.transactionId,
                                              userId |-> timer.soldByUserId,
                                              amount |-> gross,
                                              reason |-> "SALES_PENALTY"])
                 ELSE d2

\* the timer of a sale fires and a query of the calculation rejects: the error is
\* caught and logged inside the callback
DelayedBonusFails(timer, rate, fail) ==
    /\ timer \in timers
    /\ SetDB(CalculateWithFailure(DB, timer, rate, fail))
    /\ timers' = timers \ {timer}
    /\ last' = [kind |-> "bonusFailed", ok |-> TRUE, req |-> timer, fail |-> fail]
    /\ UNCHANGED procs

FailSales ==
    LET first == {Item(1, q, sp, 2, RZero) : q \in 1..MaxQty, sp \in {0, 150}}
        second == {Item(2, 1, 10, 0, RZero), [Item(2, 1, 0, 0, RZero) EXCEPT !.price = 0]}
    IN  {SaleRequest("SALE", pt, "MONTHS", 0, 0, items) :
            pt \in {"CASH", "CREDIT"},
            items \in {<<i>> : i \in first} \cup {<<i, j>> : i \in first, j \in second}}

NextBonusFail ==
    \/ \E req \in FailSales : Sale(req)
    \/ \E timer \in timers, rate \in Rates : DelayedBonus(timer, rate)
    \/ \E timer \in timers, rate \in Rates, fail \in FailurePoints :
           DelayedBonusFails(timer, rate, fail)
    \/ \E t \in 1..MaxTx, p \in Products, q \in 1..MaxQty : Attach(t, p, q)

SpecBonusFail == InitCredit /\ [][NextBonusFail]_vars

MaxStockTx == 2

Min(a, b) == IF a < b THEN a ELSE b

\* the Transaction row, with its one zero-priced line, that markPartialDefective and
\* restoreDefectiveProduct create
StockTransaction(type, id, count) ==
    [NewTransaction(SaleRequest(type, "CASH", "MONTHS", 0, 0,
                                <<[Item(id, count, 0, 0, RZero) EXCEPT !.price = 0]>>))
        EXCEPT !.status = "COMPLETED"]

\* the throws of markPartialDefective
MarkPartialDefectiveRejected(d, id, defectiveCount) ==
    \/ id \notin Products
    \/ defectiveCount <= 0
    \/ defectiveCount > d.product[id].quantity

\* the writes of markPartialDefective, in one prisma.$transaction
MarkPartialDefectiveWrites(d, id, defectiveCount) ==
    LET prod == d.product[id]
        newQuantity == prod.quantity - defectiveCount
        newDefectiveQuantity == prod.defectiveQuantity + defectiveCount
    IN  [d EXCEPT !.product[id].quantity = newQuantity,
                  !.product[id].defectiveQuantity = newDefectiveQuantity,
                  !.product[id].status = IF newQuantity = 0 THEN "DEFECTIVE" ELSE @,
                  !.logs = Append(@, [productId |-> id, quantity |-> defectiveCount,
                                      actionType |-> "DEFECTIVE", cashAmount |-> 0,
                                      transactionId |-> 0, branchId |-> 0]),
                  !.txs = Append(@, StockTransaction("WRITE_OFF", id, defectiveCount))]

\* the throws of restoreDefectiveProduct
RestoreDefectiveRejected(d, id, restoreCount) ==
    \/ id \notin Products
    \/ d.product[id].defectiveQuantity = 0
    \/ restoreCount <= 0
    \/ restoreCount > d.product[id].defectiveQuantity

\* the writes of restoreDefectiveProduct, in one prisma.$transaction
RestoreDefectiveWrites(d, id, restoreCount) ==
    LET prod == d.product[id]
        newQuantity == prod.quantity + restoreCount
        newDefectiveQuantity == prod.defectiveQuantity - restoreCount
    IN  [d EXCEPT !.product[id].quantity = newQuantity,
                  !.product[id].defectiveQuantity = newDefectiveQuantity,
                  !.product[id].status = IF newDefectiveQuantity = 0 THEN "FIXED" ELSE @,
                  !.txs = Append(@, StockTransaction("RETURN", id, restoreCount))]

\* one pass of the loop of updateProductQuantitiesForTransfer over line k of the
\* transfer: the source is clamped to what is there, the target (the Product found
\* at the target branch, or 0 when one is created there) receives what was taken
TransferLine(d, transferId, k, target) ==
    LET item == d.txs[transferId].items[k]
        sourceProduct == d.product[item.productId]
        requestedQty == item.quantity
        availableQty == sourceProduct.quantity
        transferQty == Min(Max(0, requestedQty), availableQty)
        newSourceQty == Max(0, availableQty - transferQty)
        d1 == [d EXCEPT !.product[item.productId].quantity = newSourceQty,
                        !.product[item.productId].status =
                            IF newSourceQty = 0 THEN "SOLD" ELSE "IN_STORE"]
        \* the target row is read after the source was written
        d2 == IF target \in Products
              THEN [d1 EXCEPT !.product[target].quantity = @ + transferQty,
                              !.product[target].status = "IN_WAREHOUSE"]
              ELSE d1
        d3 == IF transferQty # requestedQty
              THEN [d2 EXCEPT !.txs[transferId].items[k].quantity = transferQty,
                              !.txs[transferId].items[k].total = item.price * transferQty]
              ELSE d2
    IN  IF item.productId \notin Products \/ transferQty <= 0 THEN d ELSE d3

\* createTransfer: the TRANSFER row, then the stock of every line
CreateTransfer(d, items, target) ==
    LET id == Len(d.txs) + 1
        row == NewTransaction(SaleRequest("TRANSFER", "CASH", "MONTHS", 0, 0, items))
        d0 == [d EXCEPT !.txs = Append(@, row)]
        RECURSIVE Move(_)
        Move(k) == IF k = 0 THEN d0 ELSE TransferLine(Move(k - 1), id, k, target)
    IN  Move(Len(items))

\* the throws of remove
RemoveRejected(d, id, role) ==
    \/ ~TxExists(d, id)
    \/ d.txs[id].status = "COMPLETED" /\ role # "ADMIN"

\* the writes of remove, in one prisma.$transaction: every line's quantity goes back
\* to its product, then the schedule, the lines and the row are deleted
RemoveWrites(d, id) ==
    LET items == d.txs[id].items
        RECURSIVE GiveBack(_)
        GiveBack(k) ==
            IF k = 0 THEN d.product
            ELSE [GiveBack(k - 1) EXCEPT
                     ![items[k].productId].quantity = @ + items[k].quantity,
                     ![items[k].productId].status = "IN_STORE"]
    IN  [d EXCEPT !.product = GiveBack(Len(items)),
                  !.schedules = SelectSeq(@, LAMBDA row : row.transactionId # id),
                  !.txs[id].items = <<>>,
                  !.txs[id].deleted = TRUE]

ValidStatuses == {"PENDING", "IN_PROGRESS", "COMPLETED", "CANCELLED"}

\* the throws of updateStatus before its update
UpdateStatusRejected(d, id, status) ==
    \/ status \notin ValidStatuses
    \/ ~TxExists(d, id)
    \/ /\ status = "COMPLETED"
       /\ \E k \in 1..Len(d.txs[id].items) : d.txs[id].items[k].status = "PENDING"

\* the row as updateStatus reads it, findUnique({include: {customer: true}}): the
\* relation items is not loaded
FetchedForStatus(d, id) == [id |-> id, type |-> d.txs[id].type, status |-> d.txs[id].status]

\* mutant: the row is read with its items
ProcessDeliveryCompletion_ItemsLoaded(d, transaction) ==
    LET items == d.txs[transaction.id].items
        RECURSIVE Dec(_)
        Dec(k) == IF k = 0 THEN d.product
                  ELSE [Dec(k - 1) EXCEPT
                           ![items[k].productId].quantity = @ - items[k].quantity]
    IN  [db |-> [d EXCEPT !.product = Dec(Len(items))], thrown |-> FALSE]

\* processDeliveryCompletion: the loop over transaction.items with its decrement;
\* iterating a relation that was not loaded throws
ProcessDeliveryCompletion(d, transaction) ==
    IF "items" \notin DOMAIN transaction
    THEN [db |-> d, thrown |-> TRUE]
    ELSE LET items == transaction.items
             RECURSIVE Dec(_)
             Dec(k) == IF k = 0 THEN d.product
                       ELSE [Dec(k - 1) EXCEPT
                                ![items[k].productId].quantity = @ - items[k].quantity]
         IN  [db |-> [d EXCEPT !.product = Dec(Len(items))], thrown |-> FALSE]

\* updateStatus after its checks: the status update, then the delivery completion
UpdateStatusWrites(d, id, status) ==
    LET transaction == FetchedForStatus(d, id)
        d1 == [d EXCEPT !.txs[id].status = status]
    IN  IF status = "COMPLETED" /\ transaction.type = "DELIVERY"
        THEN ProcessDeliveryCompletion(d1, transaction)
        ELSE [db |-> d1, thrown |-> FALSE]

MarkPartialDefective(id, defectiveCount) ==
    /\ Len(txs) < MaxStockTx
    /\ IF MarkPartialDefectiveRejected(DB, id, defectiveCount)
       THEN UNCHANGED StoreVars
       ELSE SetDB(MarkPartialDefectiveWrites(DB, id, defectiveCount))
    /\ last' = [kind |-> "defect", ok |-> ~MarkPartialDefectiveRejected(DB, id, defectiveCount)]
    /\ UNCHANGED <<timers, procs>>

RestoreDefectiveProduct(id, restoreCount) ==
    /\ Len(txs) < MaxStockTx
    /\ IF RestoreDefectiveRejected(DB, id, restoreCount)
       THEN UNCHANGED StoreVars
       ELSE SetDB(RestoreDefectiveWrites(DB, id, restoreCount))
    /\ last' = [kind |-> "restore", ok |-> ~RestoreDefectiveRejected(DB, id, restoreCount)]
    /\ UNCHANGED <<timers, procs>>

\* the quantities of the rows product.create inserts at the target for the lines of a
\* transfer that match no product there
TransferCreates(d, items, target) ==
    LET id == Len(d.txs) + 1
        RECURSIVE Created(_)
        Created(k) ==
            IF k = 0 THEN <<>>
            ELSE LET item == items[k]
                     before == CreateTransfer(d, SubSeq(items, 1, k - 1), target)
                     transferQty == Min(Max(0, item.quantity),
                                        before.product[item.productId].quantity)
                 IN  IF item.productId \in Products /\ transferQty > 0
                        /\ target \notin Products
                     THEN Append(Created(k - 1), transferQty)
                     ELSE Created(k - 1)
    IN  Created(Len(items))

Transfer(items, target) ==
    /\ Len(txs) < MaxStockTx
    /\ SetDB(CreateTransfer(DB, items, target))
    /\ last' = [kind |-> "transfer", ok |-> TRUE, req |-> <<items, target>>,
                created |-> TransferCreates(DB, items, target)]
    /\ UNCHANGED <<timers, procs>>

Remove(id, role) ==
    /\ IF RemoveRejected(DB, id, role)
       THEN UNCHANGED StoreVars
       ELSE SetDB(RemoveWrites(DB, id))
    /\ last' = [kind |-> "remove", ok |-> ~RemoveRejected(DB, id, role)]
    /\ UNCHANGED <<timers, procs>>

UpdateStatus(id, status) ==
    /\ IF UpdateStatusRejected(DB, id, status)
       THEN /\ UNCHANGED StoreVars
            /\ last' = [kind |-> "status", ok |-> FALSE, req |-> <<id, status>>]
       ELSE LET result == UpdateStatusWrites(DB, id, status)
            IN  /\ SetDB(result.db)
                /\ last' = [kind |-> "status", ok |-> ~result.thrown, req |-> <<id, status>>]
    /\ UNCHANGED <<timers, procs>>

\* creation of a sale, a purchase or a delivery, as in Sale, up to MaxStockTx rows
CreateStock(req) ==
    /\ Len(txs) < MaxStockTx
    /\ SetDB(CreateTransaction(DB, req))
    /\ last' = [kind |-> "created", ok |-> TRUE]
    /\ UNCHANGED <<timers, procs>>

StockCreations ==
    {SaleRequest("SALE", "CASH", "MONTHS", 0, 0, <<Item(1, q, 0, 0, RZero)>>) :
        q \in {1, MaxQty}}
    \cup {SaleRequest("PURCHASE", "CASH", "MONTHS", 0, 0, <<Item(1, 1, 0, 0, RZero)>>),
          SaleRequest("DELIVERY", "CASH", "MONTHS", 0, 0, <<Item(1, MaxQty, 0, 0, RZero)>>)}

\* requests that name no branch, so that no cash is moved
StockActions ==
    {[PostSaleRequest(a, 1, MaxQty, FALSE) EXCEPT !.branchId = 0] : a \in ActionTypes}
    \cup {[PostSaleRequest(a, 1, 1, TRUE) EXCEPT !.branchId = 0] : a \in {"RETURN"}}
    \cup {[PostSaleRequest("EXCHANGE", 1, 1, TRUE) EXCEPT
              !.branchId = 0, !.exchangeWithProductId = 2, !.replacementQuantity = MaxQty]}

NextStock ==
    \/ \E req \in StockCreations : CreateStock(req)
    \/ \E r \in StockActions : PostSale(r)
    \/ \E n \in 0..MaxQty : MarkPartialDefective(1, n)
    \/ \E n \in 1..MaxQty : RestoreDefectiveProduct(1, n)
    \/ \E target \in {0, 2} : Transfer(<<Item(1, MaxQty, 0, 0, RZero)>>, target)
    \/ \E id \in 1..MaxStockTx, role \in {"ADMIN", "CASHIER"} : Remove(id, role)
    \/ \E id \in 1..MaxStockTx, status \in {"COMPLETED", "DONE"} : UpdateStatus(id, status)

SpecStock == InitCredit /\ [][NextStock]_vars

ExchangeSales ==
    {SaleRequest("SALE", "CASH", "MONTHS", 0, 0, <<Item(1, q, 0, 0, RZero)>>) :
        q \in 1..MaxQty}
    \cup {SaleRequest("SALE", "CASH", "MONTHS", 0, 0,
                      <<Item(1, q, 0, 0, RZero), Item(2, 1, 0, 0, RZero)>>) : q \in 1..MaxQty}

ExchangePostSales ==
    {PostSaleRequest("RETURN", p, q, TRUE) : p \in Products, q \in 1..MaxQty}
    \cup {[PostSaleRequest("EXCHANGE", p, q, TRUE) EXCEPT
              !.exchangeWithProductId = x, !.replacementUnitPrice = ProductPrice(x)] :
            p \in Products, q \in 1..MaxQty, x \in Products}

NextExchange ==
    \/ \E req \in ExchangeSales : Sale(req)
    \/ \E r \in ExchangePostSales : PostSale(r)

SpecExchange == InitCredit /\ [][NextExchange]_vars

\* the units that the committed RETURN and EXCHANGE actions linked to transaction t
\* took back of product p
ReturnedAgainst(t, p) ==
    ISum([k \in 1..Len(logs) |->
             IF /\ logs[k].transactionId = t
                /\ logs[k].productId = p
                /\ logs[k].actionType \in {"RETURN", "EXCHANGE"}
             THEN logs[k].quantity ELSE 0])

\* the lines of every sale: no negative quantity, RETURNED exactly at quantity 0, and
\* no more taken back from a line of the sale than it was sold with
LinesConsistent ==
    \A t \in 1..Len(txs) : \A k \in 1..Len(txs[t].items) :
        LET line == txs[t].items[k]
        IN  /\ line.quantity >= 0
            /\ (line.status = "RETURNED") <=> (line.quantity = 0)
            /\ (line.createdAt = 0 /\ k = FindLine(txs[t].items, line.productId))
                   => ReturnedAgainst(t, line.productId) <= line.soldQty

\* no step removes a line of a sale
LinesKept ==
    \A t \in 1..Len(txs) :
        /\ Len(txs'[t].items) >= Len(txs[t].items)
        /\ \A k \in 1..Len(txs[t].items) :
               /\ txs'[t].items[k].productId = txs[t].items[k].productId
               /\ txs'[t].items[k].createdAt = txs[t].items[k].createdAt

\* C16: across any sequence of RETURN and EXCHANGE actions against a sale no original
\* line is deleted, every line's quantity stays at least 0, the units taken back
\* from a line never exceed the quantity it was sold with, and a line has status
\* RETURNED exactly when its quantity is 0
C16_LinesAfterReturns == [][LinesKept /\ LinesConsistent']_vars

(***************************************************************************)
(* Sale creations in flight together: each awaits customer.findFirst, then *)
(* customer.update or customer.create, then the rest of create.            *)
(***************************************************************************)
MaxCustomerSales == 3

\* the uniqueness constraints of the store are on (barcode, branchId) and on
\* (cashierId, branchId, reportDate); none is on Customer.phone
PhoneIsUnique == FALSE

CustomerSales ==
    {[SaleRequest("SALE", "CASH", "MONTHS", 0, 0, <<Item(1, 1, 0, 0, RZero)>>)
         EXCEPT !.customer = c] : c \in SaleCustomers}

\* the sale creations begun so far
SalesBegun == Len(txs) + Cardinality({i \in ProcIds : procs[i].pc # "idle"})

\* customer.findFirst({where: {phone}}) of a create call
SaleFind(i, req) ==
    /\ procs[i].pc = "idle"
    /\ SalesBegun < MaxCustomerSales
    /\ procs' = [procs EXCEPT ![i] = [pc |-> "resolve", req |-> req,
                                      existing |-> FindCustomer(DB, req.customer.phone)]]
    /\ UNCHANGED <<StoreVars, timers, last>>

\* the branch taken on what findFirst returned: customer.update of the row found
\* where the request differs from it, or customer.create
ResolveCustomer(d, customer, existing) ==
    IF customer = NoCustomer
    THEN [db |-> d, customerId |-> 0, thrown |-> FALSE]
    ELSE IF existing # 0
    THEN [db |-> UpdateCustomer(d, existing, customer), customerId |-> existing,
          thrown |-> FALSE]
    ELSE IF PhoneIsUnique /\ FindCustomer(d, customer.phone) # 0
    THEN [db |-> d, customerId |-> 0, thrown |-> TRUE]
    ELSE [db |-> InsertCustomer(d, customer), customerId |-> Len(d.customers) + 1,
          thrown |-> FALSE]

SaleResolve(i) ==
    /\ procs[i].pc = "resolve"
    /\ LET customer == ResolveCustomer(DB, procs[i].req.customer, procs[i].existing)
       IN  /\ SetDB(customer.db)
           /\ procs' = [procs EXCEPT ![i] =
                           IF customer.thrown THEN Idle
                           ELSE [pc |-> "write", req |-> procs[i].req,
                                 customerId |-> customer.customerId]]
    /\ UNCHANGED <<timers, last>>

\* the rest of create, with the customerId resolved before
SaleWrite(i) ==
    /\ procs[i].pc = "write"
    /\ SetDB(WriteSale(DB, procs[i].req, procs[i].customerId))
    /\ procs' = [procs EXCEPT ![i] = Idle]
    /\ last' = [kind |-> "sale", ok |-> ~RejectedByValidation(procs[i].req),
                req |-> procs[i].req, before |-> product]
    /\ UNCHANGED timers

NextCustomers ==
    \/ \E i \in ProcIds, req \in CustomerSales : SaleFind(i, req)
    \/ \E i \in ProcIds : SaleResolve(i)
    \/ \E i \in ProcIds : SaleWrite(i)

SpecCustomers == InitCredit /\ [][NextCustomers]_vars

\* C18: after any number of sale creations with phone p, one after another or in
\* flight together, exactly one Customer row has phone p and each of those sales
\* references it
C18_OneCustomerPerPhone ==
    /\ \A j, k \in 1..Len(customers) :
           customers[j].phone = customers[k].phone => j = k
    /\ (last.kind = "sale" /\ last.ok /\ last.req.customer # NoCustomer)
           => /\ txs[Len(txs)].customerId \in 1..Len(customers)
              /\ customers[txs[Len(txs)].customerId].phone = last.req.customer.phone

(***************************************************************************)
(* The margin and the penalty of the bonus calculation (SpecBonus).        *)
(***************************************************************************)
\* the signed margin of a sale at a rate, in the currency of settlement, from its
\* lines and from the giveaways on record when the calculation starts (those
\* attached to the sale, or else its zero-priced lines); every selling price of
\* SpecBonus is small enough to be converted
SignedMargin(timer, rate) ==
    LET items == timer.items
        attached == SelectSeq(tbp, LAMBDA bp : bp.transactionId = timer.transactionId)
        free == SelectSeq(items, LAMBDA it : it.sellingPrice = 0 \/ it.price = 0)
        giveaways == IF Len(attached) > 0 THEN attached ELSE free
    IN  rate * (ISum([k \in 1..Len(items) |-> items[k].sellingPrice * items[k].quantity])
                - ISum([k \in 1..Len(items) |->
                           ProductPrice(items[k].productId) * items[k].quantity])
                - ISum([k \in 1..Len(giveaways) |->
                           ProductPrice(giveaways[k].productId) * giveaways[k].quantity]))

\* C19: the bonus calculation stores extraProfit = selling total - (cost total +
\* giveaway cost) on the transaction, negative or not, and leaves exactly one
\* SALES_PENALTY row of the seller, of that amount, if the margin is negative, and none
\* otherwise
C19_MarginAndPenalty ==
    [][last'.kind = "bonus" =>
          LET timer == last'.req
              t == timer.transactionId
              m == SignedMargin(timer, last'.rate)
              penalties == SelectSeq(bonuses', LAMBDA b :
                               b.transactionId = t /\ b.reason = "SALES_PENALTY")
          IN  /\ txs'[t].extraProfit = RInt(m)
              /\ IF m < 0
                 THEN /\ Len(penalties) = 1
                      /\ penalties[1].amount = m
                      /\ penalties[1].userId = timer.soldByUserId
                 ELSE penalties = <<>>]_vars

\* a sale with a giveaway attached was calculated at a loss
C19_Witness ==
    /\ last.kind = "bonus"
    /\ txs[last.req.transactionId].extraProfit[1] < 0
    /\ Len(BonusRows(last.req.transactionId, "SALES_PENALTY")) = 1
    /\ \E k \in 1..Len(tbp) : tbp[k].transactionId = last.req.transactionId

(***************************************************************************)
(* The allocation of the pool over the lines of a sale: sales with one or  *)
(* two lines above cost of the product that carries a bonus percentage, a  *)
(* line of the product that carries none, and a giveaway attached or not.  *)
(***************************************************************************)
PoolItemLists ==
    LET above == {Item(1, q, sp, 0, RZero) : q \in 1..MaxQty, sp \in {110, 150}}
        other == {Item(2, 1, sp, 0, RZero) : sp \in {10, 50}}
    IN  {<<i>> : i \in above}
        \cup {<<Item(1, 1, 150, 0, RZero), Item(1, 1, 110, 0, RZero)>>,
              <<Item(1, MaxQty, 150, 0, RZero), Item(1, 1, 110, 0, RZero)>>,
              <<Item(1, 1, 90, 0, RZero), Item(1, 1, 150, 0, RZero)>>}
        \cup {<<Item(1, MaxQty, 150, 0, RZero), j>> : j \in other}

PoolSales == {SaleRequest("SALE", "CASH", "MONTHS", 0, 0, items) : items \in PoolItemLists}

NextPool ==
    \/ \E req \in PoolSales : Sale(req)
    \/ \E t \in 1..MaxTx, p \in Products, q \in 1..MaxQty : Attach(t, p, q)
    \/ \E timer \in timers, rate \in Rates : DelayedBonus(timer, rate)

SpecPool == InitCredit /\ [][NextPool]_vars

\* (sellingPrice - cost) x quantity of a line that sold above cost and carries a
\* bonus percentage, 0 for any other line
LineDifference(it, rate) ==
    IF it.sellingPrice > ProductPrice(it.productId) /\ BonusPercentage(it.productId) > 0
    THEN (it.sellingPrice - ProductPrice(it.productId)) * it.quantity * rate
    ELSE 0

\* G: the cost of the giveaways on record when the calculation starts
GiveawayCost(timer, rate) ==
    LET attached == SelectSeq(tbp, LAMBDA bp : bp.transactionId = timer.transactionId)
        free == SelectSeq(timer.items, LAMBDA it : it.sellingPrice = 0 \/ it.price = 0)
        giveaways == IF Len(attached) > 0 THEN attached ELSE free
    IN  rate * ISum([k \in 1..Len(giveaways) |->
                        ProductPrice(giveaways[k].productId) * giveaways[k].quantity])

SumOfDifferences(timer, rate) ==
    ISum([k \in 1..Len(timer.items) |-> LineDifference(timer.items[k], rate)])

\* max(0, sum of the differences - G)
SharedPool(timer, rate) ==
    Max(0, SumOfDifferences(timer, rate) - GiveawayCost(timer, rate))

\* the share of the pool of line k times its bonus percentage, exactly
ExactLineBonus(timer, rate, k) ==
    LET it == timer.items[k]
        sum == SumOfDifferences(timer, rate)
    IN  IF sum = 0 THEN RZero
        ELSE RMul(RMul(RInt(SharedPool(timer, rate)), Rat(LineDifference(it, rate), sum)),
                  Rat(BonusPercentage(it.productId), 100))

\* the same with the share of the pool rounded to an integer, and the bonus again
RoundedLineBonus(timer, rate, k) ==
    LET it == timer.items[k]
        sum == SumOfDifferences(timer, rate)
        allocated == IF sum = 0 THEN 0
                     ELSE RRound(RMul(RInt(SharedPool(timer, rate)),
                                      Rat(LineDifference(it, rate), sum)))
    IN  RInt(RRound(RMul(RInt(allocated), Rat(BonusPercentage(it.productId), 100))))

\* C20 as stated: the pool is max(0, sum of (sellingPrice - cost) x quantity over
\* the contributing lines - G), G taken out once; the bonus calculation leaves, for
\* each line above cost with a bonus percentage, a SALES_BONUS row of the seller
\* equal to the line's share of the pool times bonusPercentage/100, and none for any
\* other line
C20_ExactShares ==
    [][last'.kind = "bonus" =>
          LET timer == last'.req
              amounts == [k \in 1..Len(timer.items) |->
                             ExactLineBonus(timer, last'.rate, k)]
              expected == SelectSeq(amounts, LAMBDA a : ~RIsZero(a))
              rows == SelectSeq(bonuses', LAMBDA b :
                          b.transactionId = timer.transactionId /\ b.reason = "SALES_BONUS")
          IN  /\ Len(rows) = Len(expected)
              /\ \A j \in 1..Len(rows) :
                     /\ RInt(rows[j].amount) = expected[j]
                     /\ rows[j].userId = timer.soldByUserId]_vars

\* C20, amended: as C20, the share of the pool of a line being rounded to the nearest
\* integer before the percentage is applied, the result rounded again, and no row
\* being left for a line whose amount rounds to 0
C20_RoundedShares ==
    [][last'.kind = "bonus" =>
          LET timer == last'.req
              amounts == [k \in 1..Len(timer.items) |->
                             RoundedLineBonus(timer, last'.rate, k)]
              expected == SelectSeq(amounts, LAMBDA a : ~RIsZero(a))
              rows == SelectSeq(bonuses', LAMBDA b :
                          b.transactionId = timer.transactionId /\ b.reason = "SALES_BONUS")
          IN  /\ Len(rows) = Len(expected)
              /\ \A j \in 1..Len(rows) :
                     /\ RInt(rows[j].amount) = expected[j]
                     /\ rows[j].userId = timer.soldByUserId]_vars

\* two lines above cost shared a pool that a giveaway had reduced, in parts that are
\* no whole numbers
C20_Witness ==
    /\ last.kind = "bonus"
    /\ Len(BonusRows(last.req.transactionId, "SALES_BONUS")) = 2
    /\ \E k \in 1..Len(tbp) : tbp[k].transactionId = last.req.transactionId
    /\ \E k \in 1..Len(last.req.items) :
           ExactLineBonus(last.req, last.rate, k)[2] # 1

(***************************************************************************)
(* Sale creation with a store call that rejects: the createMany of the     *)
(* schedule, or the product.update of one line.                            *)
(***************************************************************************)
\* where create is cut short: at the schedule's createMany, or at the update of the
\* stock of line 1 or 2
CreateFailurePoints == {"schedule", "stock1", "stock2"}

\* create up to the call that rejects: transaction.create has committed; the
\* schedule and the stock updates that came before the rejection have too
CreateWithFailure(d, req, fail) ==
    LET customer == UpsertCustomer(d, req.customer)
        d0 == customer.db
        id == Len(d0.txs) + 1
        tx == [NewTransaction(req) EXCEPT !.customerId = customer.customerId]
        rows == IF tx.paymentType \in CreditTypes
                THEN IF tx.termUnit = "DAYS"
                     THEN CreateDailyPaymentSchedule(id, tx.items, req.downPayment)
                     ELSE CreatePaymentSchedule(id, tx.items, req.downPayment)
                ELSE <<>>
        d1 == [d0 EXCEPT !.txs = Append(@, tx)]
        d2 == [d1 EXCEPT !.schedules = @ \o rows]
        done == IF fail = "stock1" THEN 0 ELSE 1
    IN  IF fail = "schedule" THEN d1
        ELSE [d2 EXCEPT !.product =
                 UpdateProductQuantities(@, tx.type, SubSeq(tx.items, 1, done))]

\* the store call named by fail is made by create for this request
FailureReached(req, fail) ==
    /\ ~RejectedByValidation(req)
    /\ fail = "schedule"
           => /\ req.paymentType \in CreditTypes
              /\ Len(IF req.termUnit = "DAYS"
                     THEN CreateDailyPaymentSchedule(1, CreateItems(req.items), req.downPayment)
                     ELSE CreatePaymentSchedule(1, CreateItems(req.items), req.downPayment)) > 0
    /\ fail = "stock2" => Len(req.items) >= 2

\* TransactionService.create rejecting with the error of a store call
SaleFails(req, fail) ==
    /\ Len(txs) < MaxTx
    /\ FailureReached(req, fail)
    /\ SetDB(CreateWithFailure(DB, req, fail))
    /\ last' = [kind |-> "saleFailed", ok |-> FALSE, req |-> req, fail |-> fail]
    /\ UNCHANGED <<timers, procs>>

NextCreateFail ==
    \/ \E req \in ScheduleSales : Sale(req)
    \/ \E req \in ScheduleSales, fail \in CreateFailurePoints : SaleFails(req, fail)

SpecCreateFail == InitCredit /\ [][NextCreateFail]_vars

\* C21: a sale creation that fails at the schedule or at a stock update leaves no
\* Transaction, TransactionItem, PaymentSchedule or stock change of the request
C21_FailedSaleLeavesNothing ==
    [][last'.kind = "saleFailed" => UNCHANGED <<txs, schedules, product>>]_vars

\* C22: in the atomic write of a post-sale action that commits, the stock of the
\* product is written before the DefectiveLog row is inserted, and the insert of the
\* DefectiveLog row is the last write
C22_LogWrittenLast ==
    (last.kind = "post" /\ last.ok) =>
        LET w == last.writes
        IN  /\ w[Len(w)] = "defectiveLog"
            /\ \A i, j \in 1..Len(w) :
                   (w[i] = "product" /\ w[j] = "defectiveLog") => i < j

(***************************************************************************)
(* C23: the term of the schedule recomputed after a return.                *)
(***************************************************************************)
\* the largest creditMonth among the lines of a transaction that still hold units
MaxRemainingCreditMonth(items) ==
    LET months == {items[k].creditMonth : k \in {j \in 1..Len(items) : items[j].quantity > 0}}
    IN  IF months = {} THEN 0 ELSE CHOOSE m \in months : \A n \in months : n <= m

\* C23: after a return whose recomputation regenerated the schedule, the number of
\* monthly rows is the largest creditMonth among the lines with quantity > 0; lines
\* returned to quantity 0 do not influence the new term.
C23_TermFromRemainingLines ==
    (/\ last.kind = "post"
     /\ last.ok
     /\ last.req.actionType = "RETURN"
     /\ LinkedLine(last.req) # 0
     /\ txs[1].paymentType \in CreditTypes
     /\ RecalcPlan(1, txs[1]).regenerates)
    => Len(SchedulesOf(DB, 1)) = MaxRemainingCreditMonth(txs[1].items)

(***************************************************************************)
(* C24: what a FIXED action does to the counters of its product.           *)
(***************************************************************************)
\* the units of a product on the shelf or set aside as defective
ShelfAndDefective(prod) == prod.quantity + prod.defectiveQuantity

\* C24: a committed FIXED action leaves quantity + defectiveQuantity of its product
\* as it was, for every quantity and every prior state of the product.
C24_FixedKeepsTotal ==
    [][(/\ last'.kind = "post"
        /\ last'.ok
        /\ last'.req.actionType = "FIXED"
        /\ Len(logs') = Len(logs) + 1)
       => ShelfAndDefective(product'[last'.req.productId]) =
              ShelfAndDefective(product[last'.req.productId])]_vars

(***************************************************************************)
(* C25: the cash balance of the branch against its post-sale log.          *)
(***************************************************************************)
\* the signed cash amounts of the DefectiveLog rows recorded against a branch, added up
LoggedCash(branchId) ==
    LET RECURSIVE Upto(_)
        Upto(k) ==
            IF k = 0 THEN 0
            ELSE Upto(k - 1)
                 + (IF logs[k].branchId = branchId THEN logs[k].cashAmount ELSE 0)
    IN  Upto(Len(logs))

\* C25: after any sequence of accepted and rejected post-sale actions the cash balance
\* of the branch is its initial balance (0) plus the signed cashAmount of every
\* DefectiveLog row created for the branch: a log row and its balance change are
\* committed or rolled back together.
C25_BalanceMatchesLog == cashBalance = LoggedCash(1)

\* an action rolled back inside its atomic write, after a committed one that moved
\* the balance
C25_Witness ==
    /\ last.kind = "post"
    /\ ~last.ok
    /\ "writes" \in DOMAIN last
    /\ last.req.branchId = 1
    /\ cashBalance # 0
    /\ \E k \in 1..Len(logs) : logs[k].branchId = 1 /\ logs[k].cashAmount # 0

(***************************************************************************)
(* SpecRace: two SALE creations running concurrently, the stock update of  *)
(* each line split into its read (findUnique) and its write (update).      *)
(***************************************************************************)
MaxRaceSales == 2

RaceSales ==
    {SaleRequest("SALE", "CASH", "MONTHS", 0, 0, <<StockItem(p, q)>>) :
        p \in Products, q \in 1..MaxQty}

\* TransactionService.create up to the call of updateProductQuantities
StockBegin(i, req) ==
    /\ procs[i].pc = "idle"
    /\ Len(txs) < MaxRaceSales
    /\ SetDB(CreateWithFailure(DB, req, "stock1"))
    /\ procs' = [procs EXCEPT ![i] = [pc |-> "stockRead", items |-> req.items, k |-> 1]]
    /\ last' = [kind |-> "stockBegin", ok |-> TRUE, req |-> i]
    /\ UNCHANGED timers

\* product.findUnique for the current line
StockRead(i) ==
    /\ procs[i].pc = "stockRead"
    /\ procs' = [procs EXCEPT ![i] =
                    [pc |-> "stockWrite", items |-> procs[i].items, k |-> procs[i].k,
                     read |-> product[procs[i].items[procs[i].k].productId]]]
    /\ last' = [kind |-> "stockRead", ok |-> TRUE, req |-> i]
    /\ UNCHANGED <<StoreVars, timers>>

\* the row product.update stores: computed from the row that was read
StockWriteValue_FromCurrent(read, current, type, item) ==
    UpdateProductQuantity([p \in Products |-> current], type, item)[item.productId]

StockWriteValue(read, current, type, item) ==
    UpdateProductQuantity([p \in Products |-> read], type, item)[item.productId]

\* product.update for the current line, then the next line or the end of the request
StockWrite(i) ==
    /\ procs[i].pc = "stockWrite"
    /\ LET item == procs[i].items[procs[i].k]
           p == item.productId
       IN  /\ product' = [product EXCEPT
                             ![p] = StockWriteValue(procs[i].read, product[p], "SALE", item)]
           /\ last' = [kind |-> "stockWrite", ok |-> TRUE, req |-> i, productId |-> p,
                       quantity |-> item.quantity, read |-> procs[i].read.quantity]
    /\ procs' = [procs EXCEPT ![i] =
                    IF procs[i].k < Len(procs[i].items)
                    THEN [pc |-> "stockRead", items |-> procs[i].items, k |-> procs[i].k + 1]
                    ELSE Idle]
    /\ UNCHANGED <<txs, schedules, logs, bonuses, tbp, customers, cashBalance, timers>>

NextRace ==
    \/ \E i \in ProcIds, req \in RaceSales : StockBegin(i, req)
    \/ \E i \in ProcIds : StockRead(i)
    \/ \E i \in ProcIds : StockWrite(i)

SpecRace == InitCredit /\ [][NextRace]_vars

\* C26: the stock decrement of a sale is a read-modify-write: the quantity a sale
\* stores is the quantity it read earlier less its own units (not below 0), whatever
\* the quantity has become since (so that two concurrent sales of one product can
\* leave a quantity other than s - q1 - q2 although s >= q1 + q2).
C26_WriteFromEarlierRead ==
    [][last'.kind = "stockWrite"
       => product'[last'.productId].quantity = Max(0, last'.read - last'.quantity)]_vars

\* both sales are done, the stock covered both, and one decrement is lost
C26_Witness ==
    /\ Len(txs) = 2
    /\ \A i \in ProcIds : procs[i].pc = "idle"
    /\ \A t \in 1..2 : txs[t].items[1].productId = 1
    /\ txs[1].items[1].quantity + txs[2].items[1].quantity <= MaxQty
    /\ product[1].quantity # MaxQty - txs[1].items[1].quantity - txs[2].items[1].quantity

(***************************************************************************)
(* C27: Bonus rows of a transaction after a return against it.             *)
(***************************************************************************)
\* a RETURN against a line of the transaction has committed
ReturnCommitted(t) ==
    \E k \in 1..Len(logs) :
        /\ logs[k].actionType = "RETURN"
        /\ logs[k].transactionId = t
        /\ FindLine(txs[t].items, logs[k].productId) # 0

BonusRowsOf(rows, t) == SelectSeq(rows, LAMBDA b : b.transactionId = t)

\* C27: once a RETURN against a sale has committed (deleting every Bonus row of the
\* transaction), no Bonus row of that transaction is created afterwards, in particular
\* not by the delayed bonus calculation.
C27_NoBonusAfterReturn ==
    [][\A t \in 1..Len(txs) :
          ReturnCommitted(t) => Len(BonusRowsOf(bonuses', t)) <= Len(BonusRowsOf(bonuses, t))]_vars

(***************************************************************************)
(* C28: the stored remainingBalance against the rows generated with it.    *)
(***************************************************************************)
\* the payment fields of the PaymentSchedule rows of a transaction, added up
ScheduledPayments(t) ==
    LET rows == SchedulesOf(DB, t)
    IN  RSum([k \in 1..Len(rows) |-> rows[k].payment])

\* C28: right after the creation of a CREDIT or INSTALLMENT sale its stored
\* remainingBalance is the sum of the payment fields of the PaymentSchedule rows
\* generated for it, for every combination of downPayment and amountPaid.
C28_BalanceIsScheduled ==
    (/\ last.kind = "sale"
     /\ last.ok
     /\ last.req.type = "SALE"
     /\ last.req.paymentType \in CreditTypes)
    => LET t == Len(txs)
       IN  /\ RLe(txs[t].remainingBalance, ScheduledPayments(t))
           /\ RLe(ScheduledPayments(t), txs[t].remainingBalance)

(***************************************************************************)
(* SpecPaid: credit sales, payments recorded on their rows, and returns,   *)
(* requests handled one at a time.                                         *)
(***************************************************************************)
PaidSales ==
    {SaleRequest("SALE", "CREDIT", unit, 0, 0, items) :
        unit \in {"MONTHS", "DAYS"},
        items \in {<<Item(1, q, 0, 3, pc)>> : q \in 1..MaxQty, pc \in {RZero, Rat(1, 10)}}
                  \cup {<<Item(1, q, 0, 3, pc), Item(2, 1, 0, 2, RZero)>> :
                           q \in 1..MaxQty, pc \in {RZero, Rat(1, 10)}}}

PaidPostSales == {PostSaleRequest("RETURN", p, q, TRUE) : p \in Products, q \in 1..MaxQty}

\* the amounts a customer hands over: a part of a row, or more than any row
PaymentAmounts == {RInt(20), RInt(200)}

\* a payment recorded on one row: paidAmount grows up to the amount due, and the row
\* is paid once it is covered
RecordPayment(t, month, amount) ==
    /\ \E k \in 1..Len(schedules) :
          /\ schedules[k].transactionId = t
          /\ schedules[k].month = month
          /\ ~schedules[k].isPaid
          /\ LET row == schedules[k]
                 paid == RAdd(row.paidAmount, amount)
                 covered == RLe(row.payment, paid)
             IN  schedules' = [schedules EXCEPT
                                  ![k].paidAmount = IF covered THEN row.payment ELSE paid,
                                  ![k].isPaid = covered]
    /\ last' = [kind |-> "payment", ok |-> TRUE, req |-> <<t, month>>]
    /\ UNCHANGED <<product, txs, logs, bonuses, tbp, customers, cashBalance, timers, procs>>

NextPaid ==
    \/ \E req \in PaidSales : Sale(req)
    \/ \E t \in 1..MaxTx, month \in 1..3, amount \in PaymentAmounts :
           RecordPayment(t, month, amount)
    \/ \E r \in PaidPostSales : PostSale(r)

SpecPaid == InitCredit /\ [][NextPaid]_vars

\* C29: every recomputation that regenerates the rows of a transaction leaves all its
\* rows with isPaid = FALSE and paidAmount = 0, whatever had been paid on the rows it
\* replaced; what is paid on the rows adds up to 0 after it.
C29_RegeneratedRowsUnpaid ==
    (/\ last.kind = "post"
     /\ last.ok
     /\ LinkedLine(last.req) # 0
     /\ txs[1].paymentType \in CreditTypes
     /\ RecalcPlan(1, txs[1]).regenerates)
    => /\ \A k \in 1..Len(schedules) :
              schedules[k].transactionId = 1
              => ~schedules[k].isPaid /\ RIsZero(schedules[k].paidAmount)
       /\ RIsZero(PaidOn(DB, 1))

\* a recomputation that regenerated rows on which more than one part payment had been
\* recorded
C29_Witness ==
    /\ last.kind = "post"
    /\ last.ok
    /\ LinkedLine(last.req) # 0
    /\ RecalcPlan(1, txs[1]).regenerates
    /\ RLt(RInt(20), last.paidBefore)
    /\ SchedulesOf(DB, 1) # <<>>

(***************************************************************************)
(* SpecTransfer: transfers of one product to a matched product of the      *)
(* target branch or to none, from every stock level of the source.         *)
(***************************************************************************)
TransferRequests ==
    {<<<<Item(p, q, 0, 0, RZero)>>, target>> :
        p \in Products, q \in 0..(MaxQty + 1), target \in {0} \cup Products}

NextTransfer ==
    \E request \in TransferRequests :
        /\ request[2] # request[1][1].productId
        /\ Transfer(request[1], request[2])

SpecTransfer == Init /\ [][NextTransfer]_vars

\* C30: a transfer moves t = min(max(0, requested), source stock) units of its item:
\* the source loses t, the matched target gains t (a target created for it starts
\* with t), and the quantity of the transfer line is set to t.
C30_TransferMovesT ==
    [][last'.kind = "transfer"
       => LET item == last'.req[1][1]
              target == last'.req[2]
              source == item.productId
              t == Min(Max(0, item.quantity), product[source].quantity)
          IN  /\ product'[source].quantity = product[source].quantity - t
              /\ target \in Products
                     => product'[target].quantity = product[target].quantity + t
              /\ target \notin Products => ISum(last'.created) = t
              /\ txs'[Len(txs')].items[1].quantity = t]_vars

====
